---- MODULE Spec2Model ----
(***************************************************************************)
(* Synapse: the graph store (App.tsx handleGraphUpdate), the focus state,  *)
(* the session history, the tool-call delivery of the live service         *)
(* (geminiLive.ts handleMessage), the gesture channel (App.tsx             *)
(* predictWebcam) and the hit test and view transform of the graph view    *)
(* (ThinkingGraph.tsx), as one state machine.                              *)
(*                                                                         *)
(* Numbers: importance and strength are JavaScript numbers.  Every input   *)
(* the model feeds in is an even integer, so `x * 0.5` is exactly          *)
(* `x \div 2` and every stored value is an integer.                        *)
(*                                                                         *)
(* React: a handler's state updates, the render they cause and the effects *)
(* of that render (the focusedNodeIdRef sync, the D3 data join) are one    *)
(* step of the model.  Timers (the 300 ms exit transition of a removed     *)
(* node element) are steps of their own.  So are the animation frame       *)
(* callbacks (predictWebcam) and the ticks of the D3 simulation.  The      *)
(* state updates of an animation frame callback are batched into one       *)
(* render after the callback returns (React 18).                           *)
(*                                                                         *)
(* Lengths: screen lengths are in tenths of a pixel, scales (zoomLevel, k) *)
(* in tenths, node positions in pixels and landmark coordinates in         *)
(* thousandths of the frame, so that every product is an integer.          *)
(*                                                                         *)
(* D3: forceLink().links(data.links) puts node objects in the place of the *)
(* link endpoints.  graphData keeps the ids; Live gives the graph as the   *)
(* handlers find it.  The error D3 throws on a link with a missing node    *)
(* ends the binding; what React does with the error is not modelled.       *)
(***************************************************************************)
EXTENDS Integers, Sequences, FiniteSets, TLC

\* ------------------------------------------------------------------ bounds
MaxUpdates == 2     \* Spec: concepts and relationships delivered in one run
MaxEntries == 2     \* SpecBatch: concepts plus relationships in one tool call
MaxBatch   == 4     \* SpecBatch: concepts and relationships delivered in one run
MaxArrived == 3     \* SpecOrder: function calls delivered in one run
MaxCalls   == 2     \* SpecOrder: function calls in one server message
MaxHistory == 1     \* records kept in the session history
MaxFrames  == 9     \* SpecGesture: the longest run of pinching or of open frames
MaxTicks   == 1     \* SpecView: simulation ticks in one run

\* --------------------------------------------------------------- constants
ImportanceCap == 20         \* Math.min(20, ...)
StrengthCap   == 10         \* Math.min(10, ...)
ContextualStrength == 3     \* value: 3 of a contextual link

\* Lengths on the screen are in tenths of a pixel and scales in tenths, so
\* that the focus scale 1.2 and the zoom steps of 0.1 are integers; a landmark
\* coordinate (0 to 1) is in thousandths.
Width  == 1000      \* window.innerWidth, in pixels
Height == 1000      \* window.innerHeight, in pixels
HitRadius == 70     \* let minDist = 70, in pixels
FocusK == 12        \* const focusK = 1.2 and const k = 1.2
DefaultZoom == 10   \* useState<number>(1) and setZoomLevel(1)
MinZoom == 2        \* Math.max(0.2, z - 0.1)
MaxZoom == 30       \* Math.min(3, z + 0.1)
PinchBelow == 50    \* dist < 0.05
OpenAbove == 200    \* dist > 0.20
PinchHold == 5      \* pinchDurationRef.current > 5
SpreadHold == 8     \* spreadDurationRef.current > 8

\* JavaScript null and undefined.  In a template string undefined renders as
\* the text "undefined"; no id of the model is that text.
Null      == "null"
Undefined == "undefined"
Falsy(v)  == v = Null \/ v = Undefined \/ v = ""

Min(x, y) == IF x < y THEN x ELSE y
\* x * 0.5 for the even numbers the model uses
Half(x) == x \div 2

\* --------------------------------------------------------------- the inputs
\* The concept entries a tool call may carry: well formed, or with the id
\* missing.
ConceptInputs ==
    {[id |-> "a", label |-> "A", importance |-> 10],
     [id |-> "a", label |-> "A", importance |-> 50],
     [id |-> "b", label |-> "B", importance |-> 10],
     [id |-> Undefined, label |-> "B", importance |-> 10]}

\* A concept entry with the label missing.
UnlabelledInput == [id |-> "b", label |-> Undefined, importance |-> 10]

\* The relationship entries a tool call may carry; no concept has the id "x".
RelInputs ==
    {[source_id |-> "b", target_id |-> "a", strength |-> 6],
     [source_id |-> "a", target_id |-> "b", strength |-> 50],
     [source_id |-> "x", target_id |-> "a", strength |-> 4]}

SeqsUpTo(S, n) == UNION {[1..k -> S] : k \in 0..n}

Entries(u) == Len(u.concepts) + Len(u.relationships)

\* The args of one update_mind_map call.
Updates ==
    {u \in {[concepts |-> cs, relationships |-> rs] :
                cs \in SeqsUpTo(ConceptInputs, MaxEntries),
                rs \in SeqsUpTo(RelInputs, MaxEntries)} :
        Entries(u) <= MaxEntries}

\* The calls that carry one concept or one relationship, or nothing.
SingleUpdates ==
    {[concepts |-> cs, relationships |-> <<>>] :
        cs \in SeqsUpTo(ConceptInputs \cup {UnlabelledInput}, 1)}
    \cup {[concepts |-> <<>>, relationships |-> <<r>>] : r \in RelInputs}

\* ------------------------------------------------------- JavaScript Map
\* A Map is a sequence of entries [key, addr] in insertion order; addr is the
\* address of the value object in the heap of the running updater.
MapIndex(m, k) ==
    IF \E i \in 1..Len(m) : m[i].key = k
    THEN CHOOSE i \in 1..Len(m) : m[i].key = k
    ELSE 0

MapHas(m, k) == MapIndex(m, k) # 0

MapGet(m, k) == m[MapIndex(m, k)].addr

\* Map.set: an existing key keeps its position and takes the new value.
MapSet(m, k, a) ==
    IF MapHas(m, k)
    THEN [m EXCEPT ![MapIndex(m, k)].addr = a]
    ELSE Append(m, [key |-> k, addr |-> a])

\* new Map(entries): the entries are set one after the other.
RECURSIVE MapFrom(_, _, _)
MapFrom(m, keys, i) ==
    IF i > Len(keys) THEN m
    ELSE MapFrom(MapSet(m, keys[i], i), keys, i + 1)

\* `${s}-${t}`
LinkKey(s, t) == s \o "-" \o t

\* The ids the inputs name.
NodeIdInputs ==
    {c.id : c \in ConceptInputs \cup {UnlabelledInput}}
        \cup {r.source_id : r \in RelInputs} \cup {r.target_id : r \in RelInputs}

\* The committed graph keeps a link endpoint as the id.  Where the code sees
\* the link at rest, after forceLink().links(data.links) put the node object
\* in the place of the id, the endpoint is the reference Ref(id).
Ref(id) == "&" \o id

\* typeof e === 'object'
IsObject(e) == \E id \in NodeIdInputs : e = Ref(id)

\* The endpoint as it is.
EndpointKept(e) == e

\* typeof l.source === 'object' ? l.source.id : l.source
EndpointId(e) ==
    IF IsObject(e) THEN CHOOSE id \in NodeIdInputs : e = Ref(id) ELSE e

\* ------------------------------------------------- handleGraphUpdate's body
\* The state of one run of the updater: the heaps hold the node and link
\* objects (the objects of prev.nodes and prev.links first, at the addresses
\* 1..Len(prev.nodes) and 1..Len(prev.links): the Maps are built from the very
\* objects of the previous graph), the maps are newNodesMap and newLinksMap.
StartUpdate(prev) ==
    [heapN |-> prev.nodes,
     heapL |-> prev.links,
     nodeMap |-> MapFrom(<<>>, [i \in 1..Len(prev.nodes) |-> prev.nodes[i].id], 1),
     linkMap |-> MapFrom(<<>>,
                    [i \in 1..Len(prev.links) |->
                        LinkKey(EndpointId(prev.links[i].source),
                                EndpointId(prev.links[i].target))], 1)]

\* A growth of the importance with the factor on the sum:
\* Math.min(20, (existing.val + c.importance) * 0.5)
GrowImportanceHalfSum(val, importance) == Min(ImportanceCap, Half(val + importance))

\* A growth of the importance by the full incoming value.
GrowImportanceFull(val, importance) == Min(ImportanceCap, val + importance)

\* existing.val = Math.min(20, existing.val + (c.importance * 0.5))
GrowImportance(val, importance) == Min(ImportanceCap, val + Half(importance))

\* A growth of the strength that forgets the value the link had:
\* Math.min(10, r.strength * 0.5)
GrowStrengthForgetful(value, strength) == Min(StrengthCap, Half(strength))

\* A growth of the strength without the cap.
GrowStrengthUncapped(value, strength) == value + Half(strength)

\* existing.value = Math.min(10, existing.value + (r.strength * 0.5))
GrowStrength(value, strength) == Min(StrengthCap, value + Half(strength))

\* A contextual link that takes the importance of the new node as its
\* strength.
ContextualLinkWeighted(st, c, currentFocus) ==
    IF ~Falsy(currentFocus) /\ currentFocus # c.id
       /\ ~MapHas(st.linkMap, LinkKey(currentFocus, c.id))
       /\ ~MapHas(st.linkMap, LinkKey(c.id, currentFocus))
    THEN [st EXCEPT
            !.heapL = Append(@, [source |-> currentFocus, target |-> c.id,
                                 value |-> c.importance]),
            !.linkMap = MapSet(@, LinkKey(currentFocus, c.id), Len(st.heapL) + 1)]
    ELSE st

\* The contextual link of a node that was just created.
ContextualLink(st, c, currentFocus) ==
    IF ~Falsy(currentFocus) /\ currentFocus # c.id
       /\ ~MapHas(st.linkMap, LinkKey(currentFocus, c.id))
       /\ ~MapHas(st.linkMap, LinkKey(c.id, currentFocus))
    THEN [st EXCEPT
            !.heapL = Append(@, [source |-> currentFocus, target |-> c.id,
                                 value |-> ContextualStrength]),
            !.linkMap = MapSet(@, LinkKey(currentFocus, c.id), Len(st.heapL) + 1)]
    ELSE st

\* A round of update.concepts.forEach that links the focus to the concept
\* also when the node is there already.
ApplyConceptLinked(st, c, currentFocus) ==
    IF MapHas(st.nodeMap, c.id)
    THEN ContextualLink(
            [st EXCEPT !.heapN[MapGet(st.nodeMap, c.id)].val =
                            GrowImportance(@, c.importance)],
            c, currentFocus)
    ELSE ContextualLink(
            [st EXCEPT
                !.heapN = Append(@, [id |-> c.id, label |-> c.label,
                                     val |-> c.importance]),
                !.nodeMap = MapSet(@, c.id, Len(st.heapN) + 1)],
            c, currentFocus)

\* A round of update.concepts.forEach that caps the importance of the node
\* it creates.
ApplyConceptCapped(st, c, currentFocus) ==
    IF MapHas(st.nodeMap, c.id)
    THEN [st EXCEPT !.heapN[MapGet(st.nodeMap, c.id)].val =
                        GrowImportance(@, c.importance)]
    ELSE ContextualLink(
            [st EXCEPT
                !.heapN = Append(@, [id |-> c.id, label |-> c.label,
                                     val |-> Min(ImportanceCap, c.importance)]),
                !.nodeMap = MapSet(@, c.id, Len(st.heapN) + 1)],
            c, currentFocus)

\* One round of update.concepts.forEach.
ApplyConcept(st, c, currentFocus) ==
    IF MapHas(st.nodeMap, c.id)
    THEN [st EXCEPT !.heapN[MapGet(st.nodeMap, c.id)].val =
                        GrowImportance(@, c.importance)]
    ELSE ContextualLink(
            [st EXCEPT
                !.heapN = Append(@, [id |-> c.id, label |-> c.label,
                                     val |-> c.importance]),
                !.nodeMap = MapSet(@, c.id, Len(st.heapN) + 1)],
            c, currentFocus)

\* A round of update.relationships.forEach that does not look the two ends
\* up in the node map.
ApplyRelationshipUnguarded(st, r) ==
    LET key == LinkKey(r.source_id, r.target_id) IN
    IF MapHas(st.linkMap, key)
    THEN [st EXCEPT !.heapL[MapGet(st.linkMap, key)].value =
                        GrowStrength(@, r.strength)]
    ELSE [st EXCEPT
            !.heapL = Append(@, [source |-> r.source_id,
                                 target |-> r.target_id,
                                 value |-> r.strength]),
            !.linkMap = MapSet(@, key, Len(st.heapL) + 1)]

\* One round of update.relationships.forEach.
ApplyRelationship(st, r) ==
    LET key == LinkKey(r.source_id, r.target_id) IN
    IF MapHas(st.nodeMap, r.source_id) /\ MapHas(st.nodeMap, r.target_id)
    THEN IF MapHas(st.linkMap, key)
         THEN [st EXCEPT !.heapL[MapGet(st.linkMap, key)].value =
                            GrowStrength(@, r.strength)]
         ELSE [st EXCEPT
                !.heapL = Append(@, [source |-> r.source_id,
                                     target |-> r.target_id,
                                     value |-> r.strength]),
                !.linkMap = MapSet(@, key, Len(st.heapL) + 1)]
    ELSE st

RECURSIVE ApplyConcepts(_, _, _)
ApplyConcepts(st, cs, currentFocus) ==
    IF cs = <<>> THEN st
    ELSE ApplyConcepts(ApplyConcept(st, Head(cs), currentFocus), Tail(cs), currentFocus)

RECURSIVE ApplyRelationships(_, _)
ApplyRelationships(st, rs) ==
    IF rs = <<>> THEN st
    ELSE ApplyRelationships(ApplyRelationship(st, Head(rs)), Tail(rs))

\* The values of a map, the last one set first.
MapValuesNewestFirst(m, heap) == [i \in 1..Len(m) |-> heap[m[Len(m) + 1 - i].addr]]

\* Array.from(map.values())
MapValues(m, heap) == [i \in 1..Len(m) |-> heap[m[i].addr]]

\* An updater that walks update.relationships before update.concepts.
RelationshipsFirst(prev, currentFocus, update) ==
    LET st == ApplyConcepts(
                ApplyRelationships(StartUpdate(prev), update.relationships),
                update.concepts, currentFocus)
    IN [next |-> [nodes |-> MapValues(st.nodeMap, st.heapN),
                  links |-> MapValues(st.linkMap, st.heapL)],
        prev |-> [nodes |-> SubSeq(st.heapN, 1, Len(prev.nodes)),
                  links |-> SubSeq(st.heapL, 1, Len(prev.links))]]

\* The updater handleGraphUpdate hands to setGraphData: the graph it returns
\* (next) and the graph it was given as that one reads once the updater is
\* done (prev: the same arrays, holding the same objects).
ApplyUpdate(prev, currentFocus, update) ==
    LET st == ApplyRelationships(
                ApplyConcepts(StartUpdate(prev), update.concepts, currentFocus),
                update.relationships)
    IN [next |-> [nodes |-> MapValues(st.nodeMap, st.heapN),
                  links |-> MapValues(st.linkMap, st.heapL)],
        prev |-> [nodes |-> SubSeq(st.heapN, 1, Len(prev.nodes)),
                  links |-> SubSeq(st.heapL, 1, Len(prev.links))]]

\* ------------------------------------------------------------ the program
VARIABLES
    isAppReady,         \* App: the setup screen is passed
    status,             \* App: SessionStatus
    socket,             \* GeminiLiveService: the live connection delivers messages
    service,            \* GeminiLiveService: the fields of the instance, the place
                        \* its connect() has reached, and whether disconnect() ran
                        \* since connect() was called
    graphData,          \* App: [nodes, links], the committed graph
    prevGraphData,      \* the graph object the last updater was given, as it reads now
    focusedNodeId,      \* App: state
    focusedNodeIdRef,   \* App: focusedNodeIdRef.current
    history,            \* App: the session records, newest first
    domNodes,           \* ThinkingGraph: ids bound to the <g> elements of the nodes layer
    numEntries,         \* concepts and relationships delivered so far
    lastCall,           \* what the last step handed to handleGraphUpdate, and on what
    arrived,            \* SpecOrder: the function calls in the order they arrived, each
                        \* with the focus at its arrival and the place in the
                        \* order of the first call of its message
    useCamera,          \* App: state
    isHandTrackingEnabled,  \* App: state
    recognizer,         \* App: gestureRecognizerRef.current is set
    cursor,             \* App: the HandCursor, or null
    hoveredNodeId,      \* App: state, and activeHoverId of ThinkingGraph (set together)
    pinchDuration,      \* App: pinchDurationRef.current
    spreadDuration,     \* App: spreadDurationRef.current
    hasTriggered,       \* App: hasTriggeredRef.current
    rafQueue,           \* the pending animation frame callbacks, oldest first; an
                        \* entry is TRUE when requestRef.current is its handle
    zoomLevel,          \* App: state, in tenths
    nodePos,            \* the x and y the simulation keeps in the node objects, by id
    viewTransform,      \* ThinkingGraph: the transform the zoom effect last gave
                        \* the graph container
    lastFrame,          \* what the last step handed to predictWebcam, and on what
    fired,              \* Select and Deselect events since the last neutral frame
    selected,           \* the id of the last Select event
    visMode,            \* App: state
    alpha,              \* the simulation's alpha: "max" after alpha(1).restart(),
                        \* "decayed" once a tick has lowered it
    xTargets            \* ThinkingGraph: the x the force 'x' pulls the node at each
                        \* index to, in tenths of a pixel

vars == <<isAppReady, status, socket, service, graphData, prevGraphData, focusedNodeId,
          focusedNodeIdRef, history, domNodes, numEntries, lastCall, arrived,
          useCamera, isHandTrackingEnabled, recognizer, cursor, hoveredNodeId,
          pinchDuration, spreadDuration, hasTriggered, rafQueue, zoomLevel,
          nodePos, viewTransform, lastFrame, fired, selected, visMode, alpha,
          xTargets>>

EmptyGraph == [nodes |-> <<>>, links |-> <<>>]

NodeIds(g) == {g.nodes[i].id : i \in 1..Len(g.nodes)}

NoCall == [op |-> "none", update |-> [concepts |-> <<>>, relationships |-> <<>>],
           focus |-> Null, before |-> EmptyGraph, responses |-> 0]

\* The instance before connect(): session, stream, inputAudioContext, source
\* and processor are null and isConnected is false.
NoService ==
    [isConnected |-> FALSE, session |-> Null, stream |-> Null,
     inputAudioContext |-> Null, source |-> Null, processor |-> Null,
     step |-> "none", disconnected |-> FALSE]

\* disconnect()
Disconnect(sv) ==
    [sv EXCEPT !.isConnected = FALSE, !.processor = Null, !.source = Null,
               !.inputAudioContext = Null, !.stream = Null, !.session = Null,
               !.disconnected = TRUE]

\* startAudioStream(): nothing without the audio context, the stream and the
\* session; else the source and the processor are made.
StartAudioStream(sv) ==
    IF sv.inputAudioContext = Null \/ sv.stream = Null \/ sv.session = Null
    THEN sv
    ELSE [sv EXCEPT !.source = "set", !.processor = "set"]

\* The connection's onopen callback.
OnOpenCallback(sv) == [sv EXCEPT !.isConnected = TRUE]

\* if (this.session && this.isConnected) of handleMessage and the guard of
\* onaudioprocess.
CanSend(sv) == sv.session # Null /\ sv.isConnected

\* The cursor state holds no HandCursor: the state is a sequence of at most
\* one cursor, so that null and a cursor compare.
NoCursor == <<>>

NoFrame == [kind |-> "none", event |-> "none",
            before |-> [pinch |-> 0, spread |-> 0, armed |-> FALSE, cursor |-> NoCursor,
                        focus |-> Null, hover |-> Null, selected |-> Null]]

\* No node has a position.
NoPositions == [id \in {} |-> [x |-> 0, y |-> 0]]

\* The place of the node with the id in g.nodes.
IndexOf(g, id) == CHOOSE i \in 1..Len(g.nodes) : g.nodes[i].id = id

\* simulation.nodes(data.nodes): a node without x and y gets the position d3
\* gives the node at its index (on a spiral around the origin, rounded here);
\* a node that has a position keeps it.
InitialPosition(i) ==
    IF i = 1 THEN [x |-> 7, y |-> 0]
    ELSE IF i = 2 THEN [x |-> -9, y |-> 8]
    ELSE IF i = 3 THEN [x |-> 1, y |-> -16]
    ELSE [x |-> 11, y |-> 15]

\* Every node is put at the place of its index.
SimulatedAfresh(g, pos) ==
    [id \in NodeIds(g) |-> InitialPosition(IndexOf(g, id))]

Simulated(g, pos) ==
    [id \in NodeIds(g) |->
        IF id \in DOMAIN pos THEN pos[id] ELSE InitialPosition(IndexOf(g, id))]

\* The positions the node objects of g carry over from pos.
Carried(g, pos) == [id \in NodeIds(g) \cap DOMAIN pos |-> pos[id]]

\* data.nodes.find(n => n.id === focusedNodeId) gave a node with x and y.
FocusedWithPosition(g, pos, focus) ==
    ~Falsy(focus) /\ focus \in NodeIds(g) /\ focus \in DOMAIN pos

\* The hit test's tx, ty and k.
HitTransform(g, pos, zoom, focus) ==
    IF FocusedWithPosition(g, pos, focus)
    THEN [tx |-> 5 * Width - pos[focus].x * FocusK,
          ty |-> 5 * Height - pos[focus].y * FocusK,
          k |-> FocusK]
    ELSE [tx |-> 5 * Width, ty |-> 5 * Height, k |-> zoom]

\* A zoom effect that scales the focused view by the zoom level.
ViewTransformZoomed(g, pos, zoom, focus) ==
    IF ~Falsy(focus) /\ focus \in NodeIds(g) /\ focus \in DOMAIN pos
    THEN [tx |-> 5 * Width - pos[focus].x * zoom,
          ty |-> 5 * Height - pos[focus].y * zoom,
          k |-> zoom]
    ELSE [tx |-> 5 * Width, ty |-> 5 * Height, k |-> zoom]

\* The zoom effect's translate(tx, ty) scale(k).
ViewTransform(g, pos, zoom, focus) ==
    IF ~Falsy(focus)
    THEN IF focus \in NodeIds(g) /\ focus \in DOMAIN pos
         THEN [tx |-> 5 * Width - pos[focus].x * FocusK,
               ty |-> 5 * Height - pos[focus].y * FocusK,
               k |-> FocusK]
         ELSE [tx |-> 5 * Width, ty |-> 5 * Height, k |-> zoom]
    ELSE [tx |-> 5 * Width, ty |-> 5 * Height, k |-> zoom]

\* (node.x * k) + tx and (node.y * k) + ty
Project(p, t) == [x |-> p.x * t.k + t.tx, y |-> p.y * t.k + t.ty]

\* cursor.x * width and cursor.y * height
CursorOnScreen(cur) ==
    [x |-> (cur[1].x * Width) \div 100, y |-> (cur[1].y * Height) \div 100]

\* The square of the distance of two points.
Dist2(p, q) == (p.x - q.x) * (p.x - q.x) + (p.y - q.y) * (p.y - q.y)

\* A scan of the hit test that takes a node at the distance of the nearest so
\* far, and at the radius: dist <= minDist.
RECURSIVE HitScanInclusive(_, _, _, _, _, _, _, _)
HitScanInclusive(g, pos, zoom, focus, cur, i, hit, minDist2) ==
    IF i > Len(g.nodes) THEN hit
    ELSE LET id == g.nodes[i].id IN
         IF id \in DOMAIN pos
         THEN LET d2 == Dist2(Project(pos[id],
                                      IF FocusedWithPosition(g, pos, focus)
                                      THEN [tx |-> 5 * Width - pos[focus].x * FocusK,
                                            ty |-> 5 * Height - pos[focus].y * FocusK,
                                            k |-> FocusK]
                                      ELSE [tx |-> 5 * Width, ty |-> 5 * Height,
                                            k |-> zoom]),
                              CursorOnScreen(cur))
              IN IF d2 <= minDist2
                 THEN HitScanInclusive(g, pos, zoom, focus, cur, i + 1, id, d2)
                 ELSE HitScanInclusive(g, pos, zoom, focus, cur, i + 1, hit, minDist2)
         ELSE HitScanInclusive(g, pos, zoom, focus, cur, i + 1, hit, minDist2)

\* data.nodes.forEach of the hit test from the node at i on: hit is the
\* nearest node so far, minDist2 the square of its distance (of the radius
\* while there is none).
RECURSIVE HitScan(_, _, _, _, _, _, _, _)
HitScan(g, pos, zoom, focus, cur, i, hit, minDist2) ==
    IF i > Len(g.nodes) THEN hit
    ELSE LET id == g.nodes[i].id IN
         IF id \in DOMAIN pos
         THEN LET d2 == Dist2(Project(pos[id], HitTransform(g, pos, zoom, focus)),
                              CursorOnScreen(cur))
              IN IF d2 < minDist2
                 THEN HitScan(g, pos, zoom, focus, cur, i + 1, id, d2)
                 ELSE HitScan(g, pos, zoom, focus, cur, i + 1, hit, minDist2)
         ELSE HitScan(g, pos, zoom, focus, cur, i + 1, hit, minDist2)

HitTest(g, pos, zoom, focus, cur) ==
    HitScan(g, pos, zoom, focus, cur, 1, Null, (10 * HitRadius) * (10 * HitRadius))

\* One run of the hit test effect: the hover id it leaves.
HoverEffect(g, pos, zoom, focus, cur, activeHoverId) ==
    IF cur = NoCursor \/ Len(g.nodes) = 0
    THEN IF Falsy(activeHoverId) THEN activeHoverId ELSE Null
    ELSE HitTest(g, pos, zoom, focus, cur)

\* A stream target that divides the index by the number of nodes.
StreamXByCount(i, nodeCount) == (i * 8 * Width) \div nodeCount - 4 * Width

\* -width/2.5 + (progress * width * 0.8) with progress = i / (nodeCount - 1 || 1),
\* for the node at the index i, counted from 0.
StreamX(i, nodeCount) ==
    (i * 8 * Width) \div (IF nodeCount - 1 = 0 THEN 1 ELSE nodeCount - 1) - 4 * Width

\* The targets of the force 'x' of the mode: d3 calls the accessor of forceX
\* once for every node, with its index in simulation.nodes(); nodeCount is
\* data.nodes.length || 1.
ForceX(g, mode) ==
    [i \in 1..Len(g.nodes) |->
        IF mode = "stream"
        THEN StreamX(i - 1, IF Len(g.nodes) = 0 THEN 1 ELSE Len(g.nodes))
        ELSE 0]

\* The pending callbacks stay as they are.
KeepPending(q) == q

\* cancelAnimationFrame(requestRef.current)
Cancel(q) ==
    IF \E i \in 1..Len(q) : q[i]
    THEN LET i == CHOOSE j \in 1..Len(q) : q[j]
         IN SubSeq(q, 1, i - 1) \o SubSeq(q, i + 1, Len(q))
    ELSE q

\* requestRef.current = requestAnimationFrame(predictWebcam)
Request(q) == [i \in 1..Len(q) |-> FALSE] \o <<TRUE>>

\* The state once the app is mounted, with a stored history that holds no
\* record.
Init ==
    /\ isAppReady = FALSE
    /\ status = "idle"
    /\ socket = "none"
    /\ service = NoService
    /\ graphData = EmptyGraph
    /\ prevGraphData = EmptyGraph
    /\ focusedNodeId = Null
    /\ focusedNodeIdRef = Null
    /\ history = <<>>
    /\ domNodes = {}
    /\ numEntries = 0
    /\ lastCall = NoCall
    /\ arrived = <<>>
    /\ useCamera = FALSE
    /\ isHandTrackingEnabled = FALSE
    /\ recognizer = "none"
    /\ cursor = NoCursor
    /\ hoveredNodeId = Null
    /\ pinchDuration = 0
    /\ spreadDuration = 0
    /\ hasTriggered = FALSE
    /\ rafQueue = <<>>
    /\ zoomLevel = DefaultZoom
    /\ nodePos = NoPositions
    /\ viewTransform = [tx |-> 5 * Width, ty |-> 5 * Height, k |-> DefaultZoom]
    /\ lastFrame = NoFrame
    /\ fired = 0
    /\ selected = Null
    /\ visMode = "network"
    /\ alpha = "max"
    /\ xTargets = <<>>

\* The effects of the render a handler causes: the ref sync and the data join
\* of the nodes layer, which binds an element for every node of the graph and
\* starts the exit transition of the others.
Rendered(g, focus) ==
    /\ focusedNodeIdRef' = focus
    /\ domNodes' = domNodes \cup NodeIds(g)

\* The effects of a commit outside the nodes layer, for the graph g and the
\* focus of the render: the simulation gives the new nodes a position, the hit
\* test effect runs when the cursor, data.nodes, the zoom or the focus changed
\* (before the layout effect, and once more when it changed the hover id), the
\* zoom effect when data.nodes, the zoom or the focus changed, and the
\* scheduling effect when predictWebcam changed.  The layout effect runs, and
\* ends in simulation.alpha(1).restart(), when the graph object, the mode, the
\* focus or the hover id changed.  carried holds the positions
\* the node objects of g bring along, newData says that data.nodes is a new
\* array, q is the frame queue the handler left and newCursor says that the
\* handler set a new cursor object.
Effects(g, focus, carried, newData, q, newCursor) ==
    LET pre == Carried(g, carried)
        post == Simulated(g, pre)
        cursorChanged == newCursor \/ cursor' # cursor
        focusChanged == focus # focusedNodeId
        zoomChanged == zoomLevel' # zoomLevel
        first == IF cursorChanged \/ newData \/ zoomChanged \/ focusChanged
                 THEN HoverEffect(g, pre, zoomLevel', focus, cursor', hoveredNodeId)
                 ELSE hoveredNodeId
        hover == IF first = hoveredNodeId THEN first
                 ELSE HoverEffect(g, post, zoomLevel', focus, cursor', first)
        rescheduled == \/ useCamera' # useCamera
                       \/ isAppReady' # isAppReady
                       \/ isHandTrackingEnabled' # isHandTrackingEnabled
                       \/ hover # hoveredNodeId
                       \/ focusChanged
                       \/ cursorChanged
        layout == newData \/ visMode' # visMode \/ focusChanged \/ hover # hoveredNodeId
    IN /\ nodePos' = post
       /\ hoveredNodeId' = hover
       /\ alpha' = IF layout THEN "max" ELSE alpha
       /\ xTargets' = IF layout THEN ForceX(g, visMode') ELSE xTargets
       /\ viewTransform' = IF newData \/ zoomChanged \/ focusChanged
                           THEN ViewTransform(g, post, zoomLevel', focus)
                           ELSE viewTransform
       /\ rafQueue' = IF rescheduled
                      THEN IF useCamera' /\ isAppReady' /\ isHandTrackingEnabled'
                           THEN Request(Cancel(q))
                           ELSE Cancel(q)
                      ELSE q

\* The step is no landmark frame and leaves the gesture channel alone.
NoGesture ==
    /\ lastFrame' = NoFrame
    /\ UNCHANGED <<useCamera, isHandTrackingEnabled, recognizer, cursor,
                   pinchDuration, spreadDuration, hasTriggered, fired, selected>>

\* The step runs no effect of the graph view.
NoEffects ==
    /\ NoGesture
    /\ UNCHANGED <<zoomLevel, visMode, nodePos, hoveredNodeId, viewTransform,
                   rafQueue, alpha, xTargets>>

\* forceLink().links(data.links): the links in their order, the source and
\* then the target of each looked up among the nodes; a missing node throws,
\* which leaves that endpoint and all that follow as ids.
LiveLinks(g) ==
    LET known(e) == e \in NodeIds(g)
        bad == {i \in 1..Len(g.links) :
                   ~known(g.links[i].source) \/ ~known(g.links[i].target)}
        firstBad == IF bad = {} THEN Len(g.links) + 1
                    ELSE CHOOSE i \in bad : \A j \in bad : i <= j
    IN [i \in 1..Len(g.links) |->
           [source |-> IF i < firstBad \/ (i = firstBad /\ known(g.links[i].source))
                       THEN Ref(g.links[i].source) ELSE g.links[i].source,
            target |-> IF i < firstBad
                       THEN Ref(g.links[i].target) ELSE g.links[i].target,
            value |-> g.links[i].value]]

\* simulation.nodes(data.nodes): the node objects with the x and y of the
\* simulation.
LiveNodes(g, pos) ==
    [i \in 1..Len(g.nodes) |->
        IF g.nodes[i].id \in DOMAIN pos
        THEN [id |-> g.nodes[i].id, label |-> g.nodes[i].label, val |-> g.nodes[i].val,
              x |-> pos[g.nodes[i].id].x, y |-> pos[g.nodes[i].id].y]
        ELSE g.nodes[i]]

\* The graph state as the handlers find it, once the effects of the last
\* commit have run.
Live(g, pos) == [nodes |-> LiveNodes(g, pos), links |-> LiveLinks(g)]

CleanNodes(g) ==
    [i \in 1..Len(g.nodes) |->
        [id |-> g.nodes[i].id, label |-> g.nodes[i].label, val |-> g.nodes[i].val]]

CleanLinks(g) ==
    [i \in 1..Len(g.links) |->
        [source |-> EndpointId(g.links[i].source),
         target |-> EndpointId(g.links[i].target),
         value |-> g.links[i].value]]

\* saveSession: the history with the record it puts in front, if any.  The
\* transcript is not part of the model: it reads as the empty text.
SaveSession(h, g) ==
    IF Len(g.nodes) = 0 THEN h
    ELSE <<[nodes |-> CleanNodes(g), links |-> CleanLinks(g)]>> \o h

\* "Continue without Camera"
SkipCamera ==
    /\ ~isAppReady
    /\ isAppReady' = TRUE
    /\ lastCall' = NoCall
    /\ UNCHANGED <<status, socket, service, graphData, prevGraphData, focusedNodeId,
                   focusedNodeIdRef, history, domNodes, numEntries, arrived>>
    /\ NoEffects

\* toggleSession from idle: connect() succeeds and onopen fires.
StartSession ==
    /\ isAppReady
    /\ status \in {"idle", "error"}
    /\ status' = "active"
    /\ socket' = "open"
    /\ service' = OnOpenCallback(StartAudioStream(
                        [NoService EXCEPT !.stream = "set", !.inputAudioContext = "set",
                                          !.session = "set", !.step = "resolved"]))
    /\ lastCall' = NoCall
    /\ UNCHANGED <<isAppReady, graphData, prevGraphData, focusedNodeId,
                   focusedNodeIdRef, history, domNodes, numEntries, arrived>>
    /\ NoEffects

\* toggleSession from active: disconnect(), which leaves the connection's
\* onmessage callback in place, then saveSession().
StopSession ==
    /\ isAppReady
    /\ status \in {"active", "connecting"}
    /\ Len(history) < MaxHistory \/ Len(graphData.nodes) = 0
    /\ status' = "idle"
    /\ history' = SaveSession(history, Live(graphData, nodePos))
    /\ service' = Disconnect(service)
    /\ lastCall' = NoCall
    /\ UNCHANGED <<isAppReady, socket, graphData, prevGraphData, focusedNodeId,
                   focusedNodeIdRef, domNodes, numEntries, arrived>>
    /\ NoEffects

ToolCall(u) == [name |-> "update_mind_map", args |-> u]

\* A call of a tool the service does not declare.
OtherCall == [name |-> "other_tool", args |-> [concepts |-> <<>>, relationships |-> <<>>]]

\* A handleMessage that looks at functionCalls[0] only.
ApplyFirstCall(acc, calls, currentFocus) ==
    IF calls = <<>> THEN acc
    ELSE LET fc == Head(calls) IN
         IF fc.name = "update_mind_map"
         THEN ApplyUpdate(acc.next, currentFocus, fc.args)
         ELSE acc

\* handleMessage: message.toolCall.functionCalls.forEach hands the args of
\* every update_mind_map call, in order, to onGraphUpdate; setGraphData runs
\* the updaters in the order they were queued, each on the result of the one
\* before.
RECURSIVE ApplyCalls(_, _, _)
ApplyCalls(acc, calls, currentFocus) ==
    IF calls = <<>> THEN acc
    ELSE LET fc == Head(calls) IN
         IF fc.name = "update_mind_map"
         THEN ApplyCalls(ApplyUpdate(acc.next, currentFocus, fc.args),
                         Tail(calls), currentFocus)
         ELSE ApplyCalls(acc, Tail(calls), currentFocus)

HandleMessage(message) ==
    /\ socket = "open"
    /\ LET r == ApplyCalls([next |-> graphData, prev |-> prevGraphData],
                           message, focusedNodeIdRef)
       IN /\ graphData' = r.next
          /\ prevGraphData' = r.prev
          /\ Rendered(r.next, focusedNodeId)
    /\ UNCHANGED <<isAppReady, status, socket, service, focusedNodeId, history>>
    /\ NoGesture
    /\ UNCHANGED <<zoomLevel, visMode>>
    /\ Effects(graphData', focusedNodeId, nodePos,
               \E i \in 1..Len(message) : message[i].name = "update_mind_map",
               rafQueue, FALSE)

\* The server sends a message with one function call.
Deliver(fc, limit) ==
    /\ numEntries + Entries(fc.args) <= limit
    /\ HandleMessage(<<fc>>)
    /\ numEntries' = numEntries + Entries(fc.args)
    /\ lastCall' = [op |-> fc.name, update |-> fc.args,
                    focus |-> focusedNodeIdRef, before |-> graphData,
                    responses |-> IF fc.name = "update_mind_map" /\ CanSend(service)
                                  THEN 1 ELSE 0]
    /\ UNCHANGED arrived

\* The calls SpecOrder draws a message from.
OrderCalls ==
    {ToolCall([concepts |-> <<c>>, relationships |-> <<>>]) :
        c \in {x \in ConceptInputs : x.id # Undefined /\ x.label # Undefined}}
    \cup {ToolCall([concepts |-> <<>>, relationships |-> <<r>>]) :
            r \in {x \in RelInputs : x.strength = 6}}
    \cup {OtherCall}

OrderMessages == UNION {[1..k -> OrderCalls] : k \in 1..MaxCalls}

RECURSIVE EntriesOf(_)
EntriesOf(message) ==
    IF message = <<>> THEN 0
    ELSE Entries(Head(message).args) + EntriesOf(Tail(message))

\* The server sends a message with several function calls.
DeliverMessage(message) ==
    /\ Len(arrived) + Len(message) <= MaxArrived
    /\ HandleMessage(message)
    /\ numEntries' = numEntries + EntriesOf(message)
    /\ arrived' = arrived \o [i \in 1..Len(message) |->
                                [call |-> message[i], focus |-> focusedNodeIdRef,
                                 first |-> Len(arrived) + 1]]
    /\ lastCall' = NoCall

\* "New Session"
ClearGraph ==
    /\ isAppReady
    /\ Len(graphData.nodes) > 0 /\ status = "idle"
    /\ Len(history) < MaxHistory
    /\ history' = SaveSession(history, Live(graphData, nodePos))
    /\ graphData' = EmptyGraph
    /\ focusedNodeId' = Null
    /\ Rendered(EmptyGraph, Null)
    /\ lastCall' = [NoCall EXCEPT !.op = "clearGraph"]
    /\ UNCHANGED <<isAppReady, status, socket, service, prevGraphData, numEntries, arrived>>
    /\ NoGesture
    /\ zoomLevel' = DefaultZoom
    /\ visMode' = "network"
    /\ Effects(EmptyGraph, Null, NoPositions, TRUE, rafQueue, FALSE)

LoadSession(i) ==
    /\ isAppReady
    /\ i \in 1..Len(history)
    /\ graphData' = [nodes |-> history[i].nodes, links |-> history[i].links]
    /\ focusedNodeId' = Null
    /\ Rendered(history[i], Null)
    /\ lastCall' = [NoCall EXCEPT !.op = "loadSession"]
    /\ UNCHANGED <<isAppReady, status, socket, service, prevGraphData, history, numEntries, arrived>>
    /\ NoGesture
    /\ zoomLevel' = DefaultZoom
    /\ UNCHANGED visMode
    /\ Effects(graphData', Null, NoPositions, TRUE, rafQueue, FALSE)

DeleteHistoryItem(i) ==
    /\ isAppReady
    /\ i \in 1..Len(history)
    /\ history' = [j \in 1..(Len(history) - 1) |->
                      IF j < i THEN history[j] ELSE history[j + 1]]
    /\ lastCall' = NoCall
    /\ UNCHANGED <<isAppReady, status, socket, service, graphData, prevGraphData,
                   focusedNodeId, focusedNodeIdRef, domNodes, numEntries, arrived>>
    /\ NoEffects

\* enterNode
EnterNode(nodeId) ==
    /\ focusedNodeId' = nodeId
    /\ Rendered(graphData, nodeId)

\* exitNode
ExitNode ==
    /\ focusedNodeId' = Null
    /\ Rendered(graphData, Null)

\* dblclick on a node element: onNodeDoubleClick(d.id).  The element of a node
\* that left the graph stays in the layer, with its listener, until its exit
\* transition ends.
DoubleClickNode(id) ==
    /\ isAppReady
    /\ id \in domNodes
    /\ EnterNode(id)
    /\ lastCall' = NoCall
    /\ UNCHANGED <<isAppReady, status, socket, service, graphData, prevGraphData, history,
                   numEntries, arrived>>
    /\ NoGesture
    /\ UNCHANGED <<zoomLevel, visMode>>
    /\ Effects(graphData, id, nodePos, FALSE, rafQueue, FALSE)

\* click on the svg background: onBackgroundClick.
BackgroundClick ==
    /\ isAppReady
    /\ ExitNode
    /\ lastCall' = NoCall
    /\ UNCHANGED <<isAppReady, status, socket, service, graphData, prevGraphData, history,
                   numEntries, arrived>>
    /\ NoGesture
    /\ UNCHANGED <<zoomLevel, visMode>>
    /\ Effects(graphData, Null, nodePos, FALSE, rafQueue, FALSE)

\* nodes.exit().transition().duration(300).remove()
ExitTransitionEnd ==
    /\ domNodes # domNodes \cap NodeIds(graphData)
    /\ domNodes' = domNodes \cap NodeIds(graphData)
    /\ lastCall' = NoCall
    /\ UNCHANGED <<isAppReady, status, socket, service, graphData, prevGraphData,
                   focusedNodeId, focusedNodeIdRef, history, numEntries, arrived>>
    /\ NoEffects

\* exportJSON: the record is read, not changed.
ExportJSON(i) ==
    /\ isAppReady
    /\ i \in 1..Len(history)
    /\ lastCall' = NoCall
    /\ UNCHANGED <<isAppReady, status, socket, service, graphData, prevGraphData, focusedNodeId,
                   focusedNodeIdRef, history, domNodes, numEntries, arrived>>
    /\ NoEffects

\* nodes.sort((a, b) => b.val - a.val): the nodes by falling val, nodes of
\* the same val in the order they had.
RECURSIVE SortByVal(_)
SortByVal(nodes) ==
    IF Len(nodes) <= 1 THEN nodes
    ELSE LET last == nodes[Len(nodes)]
             front == SortByVal(SubSeq(nodes, 1, Len(nodes) - 1))
             ahead == Cardinality({i \in 1..Len(front) : front[i].val >= last.val})
         IN SubSeq(front, 1, ahead) \o <<last>> \o SubSeq(front, ahead + 1, Len(front))

\* exportMarkdown: it sorts item.graphData.nodes, the array of the record in
\* the history state, in place.
ExportMarkdown(i) ==
    /\ isAppReady
    /\ i \in 1..Len(history)
    /\ history' = [history EXCEPT ![i].nodes = SortByVal(@)]
    /\ lastCall' = NoCall
    /\ UNCHANGED <<isAppReady, status, socket, service, graphData, prevGraphData, focusedNodeId,
                   focusedNodeIdRef, domNodes, numEntries, arrived>>
    /\ NoEffects

\* ------------------------------------------------------ the gesture channel
\* The part of the state not touched by the camera and gesture handlers.
StoreUnchanged ==
    /\ lastCall' = NoCall
    /\ UNCHANGED <<status, socket, service, graphData, prevGraphData, history, numEntries,
                   arrived, zoomLevel, visMode>>

\* "Enable Camera" on the setup screen: getUserMedia resolves.
EnableCamera ==
    /\ ~isAppReady
    /\ useCamera' = TRUE
    /\ isAppReady' = TRUE
    /\ lastFrame' = NoFrame
    /\ StoreUnchanged
    /\ UNCHANGED <<focusedNodeId, focusedNodeIdRef, domNodes, isHandTrackingEnabled,
                   recognizer, cursor, pinchDuration, spreadDuration, hasTriggered,
                   fired, selected>>
    /\ Effects(graphData, focusedNodeId, nodePos, FALSE, rafQueue, FALSE)

\* toggleCamera
ToggleCamera ==
    /\ isAppReady
    /\ IF ~useCamera
       THEN /\ useCamera' = TRUE
            /\ UNCHANGED <<cursor, isHandTrackingEnabled>>
       ELSE /\ useCamera' = FALSE
            /\ cursor' = NoCursor
            /\ isHandTrackingEnabled' = FALSE
    /\ lastFrame' = NoFrame
    /\ StoreUnchanged
    /\ UNCHANGED <<isAppReady, focusedNodeId, focusedNodeIdRef, domNodes, recognizer,
                   pinchDuration, spreadDuration, hasTriggered, fired, selected>>
    /\ Effects(graphData, focusedNodeId, nodePos, FALSE, rafQueue, FALSE)

\* The hand tracking button, shown while the camera is on.
ToggleHandTracking ==
    /\ isAppReady
    /\ useCamera
    /\ isHandTrackingEnabled' = ~isHandTrackingEnabled
    /\ lastFrame' = NoFrame
    /\ StoreUnchanged
    /\ UNCHANGED <<isAppReady, useCamera, focusedNodeId, focusedNodeIdRef, domNodes,
                   recognizer, cursor, pinchDuration, spreadDuration, hasTriggered,
                   fired, selected>>
    /\ Effects(graphData, focusedNodeId, nodePos, FALSE, rafQueue, FALSE)

\* loadMediaPipe resolves: gestureRecognizerRef.current = recognizer.
LoadMediaPipe ==
    /\ recognizer = "none"
    /\ recognizer' = "loaded"
    /\ lastFrame' = NoFrame
    /\ StoreUnchanged
    /\ UNCHANGED <<isAppReady, useCamera, focusedNodeId, focusedNodeIdRef, domNodes,
                   isHandTrackingEnabled, cursor, pinchDuration, spreadDuration,
                   hasTriggered, fired, selected, nodePos, hoveredNodeId,
                   viewTransform, rafQueue, alpha, xTargets>>

\* What a landmark frame brings: the video is not ready, the recognizer
\* raises, it finds no hand, or it finds the hand with the index tip and
\* the thumb tip at the given places (in thousandths of the frame).
Point(x, y) == [x |-> x, y |-> y]

FrameInput(kind, index, thumb) == [kind |-> kind, index |-> index, thumb |-> thumb]

FrameInputs ==
    { FrameInput("notReady", Point(0, 0), Point(0, 0)),
      FrameInput("raises", Point(0, 0), Point(0, 0)),
      FrameInput("noHand", Point(0, 0), Point(0, 0)),
      FrameInput("hand", Point(493, 500), Point(523, 500)),
      FrameInput("hand", Point(900, 100), Point(930, 100)),
      FrameInput("hand", Point(493, 500), Point(593, 500)),
      FrameInput("hand", Point(493, 500), Point(493, 800)) }

\* dist < 0.05
IsPinching(input) ==
    Dist2(input.thumb, input.index) < PinchBelow * PinchBelow

\* dist > 0.20
IsOpen(input) ==
    Dist2(input.thumb, input.index) > OpenAbove * OpenAbove

\* setCursor({x: cursorX, y: cursorY, isPinching})
CursorOf(input) ==
    <<[x |-> 1000 - input.index.x, y |-> input.index.y,
       isPinching |-> IsPinching(input)]>>

\* A pinch past the hold selects the hovered node whatever the focus is.
SelectAlways(hover, focus) == TRUE

\* focusedNodeId !== hoveredNodeId
SelectFires(hover, focus) == focus # hover

\* The armed flag is dropped.
Disarm(armed) == FALSE

\* The frames without a hand leave hasTriggeredRef.current as it is.
KeepArmed(armed) == armed

\* The branches of predictWebcam, on the refs and the values of its closure
\* st = [pinch, spread, armed, cursor, hover, focus]: the counters and the
\* armed flag it leaves, the event it emits with the focus that follows, the
\* cursor it sets (newCursor when it is a new object) and whether it asks
\* for the next frame.
Off(st) ==
    [pinch |-> st.pinch, spread |-> st.spread, armed |-> st.armed,
     event |-> "none", focus |-> st.focus,
     cursor |-> NoCursor, newCursor |-> FALSE, scheduled |-> FALSE]

NotReady(st) ==
    [pinch |-> st.pinch, spread |-> st.spread, armed |-> st.armed,
     event |-> "none", focus |-> st.focus,
     cursor |-> st.cursor, newCursor |-> FALSE, scheduled |-> TRUE]

\* The frame without a hand leaves the counters as they are.
HandLostKeepsCount(st) ==
    [pinch |-> st.pinch, spread |-> st.spread, armed |-> st.armed,
     event |-> "none", focus |-> st.focus,
     cursor |-> NoCursor, newCursor |-> FALSE, scheduled |-> TRUE]

HandLost(st) ==
    [pinch |-> 0, spread |-> 0, armed |-> KeepArmed(st.armed),
     event |-> "none", focus |-> st.focus,
     cursor |-> NoCursor, newCursor |-> FALSE, scheduled |-> TRUE]

\* The frame is taken for one without a hand.
RaisesAsLost(st) ==
    [pinch |-> 0, spread |-> 0, armed |-> st.armed,
     event |-> "none", focus |-> st.focus,
     cursor |-> NoCursor, newCursor |-> FALSE, scheduled |-> TRUE]

Raises(st) ==
    [pinch |-> st.pinch, spread |-> st.spread, armed |-> st.armed,
     event |-> "none", focus |-> st.focus,
     cursor |-> st.cursor, newCursor |-> FALSE, scheduled |-> TRUE]

\* The pinch counts from its first frame.
HoldSkipped(pinch) == pinch > 0

\* pinchDurationRef.current > 5
HoldPassed(pinch) == pinch > PinchHold

\* The spread counts from its first frame.
SpreadSkipped(spread) == spread > 0

\* spreadDurationRef.current > 8
SpreadPassed(spread) == spread > SpreadHold

Pinch(st, input) ==
    LET pinch == st.pinch + 1
        trigger == HoldPassed(pinch) /\ ~st.armed /\ ~Falsy(st.hover)
        select == trigger /\ SelectFires(st.hover, st.focus)
    IN [pinch |-> pinch, spread |-> 0, armed |-> st.armed \/ trigger,
        event |-> IF select THEN "select" ELSE "none",
        focus |-> IF select THEN st.hover ELSE st.focus,
        cursor |-> CursorOf(input), newCursor |-> TRUE, scheduled |-> TRUE]

\* An open frame that leaves the pinch counter as it is.
SpreadKeepsPinch(st, input) ==
    LET spread == st.spread + 1
        trigger == SpreadPassed(spread) /\ ~st.armed
        deselect == trigger /\ ~Falsy(st.focus)
    IN [pinch |-> st.pinch, spread |-> spread, armed |-> st.armed \/ trigger,
        event |-> IF deselect THEN "deselect" ELSE "none",
        focus |-> IF deselect THEN Null ELSE st.focus,
        cursor |-> CursorOf(input), newCursor |-> TRUE, scheduled |-> TRUE]

Spread(st, input) ==
    LET spread == st.spread + 1
        trigger == SpreadPassed(spread) /\ ~st.armed
        deselect == trigger /\ ~Falsy(st.focus)
    IN [pinch |-> 0, spread |-> spread, armed |-> st.armed \/ trigger,
        event |-> IF deselect THEN "deselect" ELSE "none",
        focus |-> IF deselect THEN Null ELSE st.focus,
        cursor |-> CursorOf(input), newCursor |-> TRUE, scheduled |-> TRUE]

Neutral(st, input) ==
    [pinch |-> 0, spread |-> 0, armed |-> FALSE,
     event |-> "none", focus |-> st.focus,
     cursor |-> CursorOf(input), newCursor |-> TRUE, scheduled |-> TRUE]

\* The branch a frame takes.
FrameKind(input) ==
    IF ~(recognizer = "loaded" /\ useCamera /\ isHandTrackingEnabled) THEN "off"
    ELSE IF input.kind # "hand" THEN input.kind
    ELSE IF IsPinching(input) THEN "pinching"
    ELSE IF IsOpen(input) THEN "open"
    ELSE "neutral"

PredictWebcam(st, kind, input) ==
    IF kind = "off" THEN Off(st)
    ELSE IF kind = "notReady" THEN NotReady(st)
    ELSE IF kind = "raises" THEN Raises(st)
    ELSE IF kind = "noHand" THEN HandLost(st)
    ELSE IF kind = "pinching" THEN Pinch(st, input)
    ELSE IF kind = "open" THEN Spread(st, input)
    ELSE Neutral(st, input)

\* The browser runs the oldest pending animation frame callback:
\* predictWebcam, then the render and the effects its state updates cause.
AnimationFrame(input) ==
    /\ rafQueue # <<>>
    /\ LET st == [pinch |-> pinchDuration, spread |-> spreadDuration,
                  armed |-> hasTriggered, cursor |-> cursor,
                  hover |-> hoveredNodeId, focus |-> focusedNodeId,
                  selected |-> selected]
           kind == FrameKind(input)
           out == PredictWebcam(st, kind, input)
           q == IF out.scheduled THEN Request(Tail(rafQueue)) ELSE Tail(rafQueue)
       IN /\ kind = "off" => input.kind = "noHand"
          /\ kind = "pinching" => pinchDuration < MaxFrames
          /\ kind = "open" => spreadDuration < MaxFrames
          /\ pinchDuration' = out.pinch
          /\ spreadDuration' = out.spread
          /\ hasTriggered' = out.armed
          /\ cursor' = out.cursor
          /\ focusedNodeId' = out.focus
          /\ Rendered(graphData, out.focus)
          /\ lastFrame' = [kind |-> kind, event |-> out.event, before |-> st]
          /\ fired' = IF kind = "neutral" THEN 0
                      ELSE IF out.event = "none" THEN fired ELSE fired + 1
          /\ selected' = IF out.event = "select" THEN st.hover ELSE selected
          /\ StoreUnchanged
          /\ UNCHANGED <<isAppReady, useCamera, isHandTrackingEnabled, recognizer>>
          /\ Effects(graphData, out.focus, nodePos, FALSE, q, out.newCursor)

\* The tool calls of the gesture runs: the concept a.
GestureUpdates ==
    {u \in SingleUpdates :
        /\ Len(u.concepts) = 1
        /\ u.concepts[1].id = "a"
        /\ u.concepts[1].importance = 10}

\* ------------------------------------------------------------- the view
\* What one tick of the simulation adds to the position of a node.
Drift == [x |-> 100, y |-> 0]

\* simulation.on('tick'): the forces move a node.  It is no render: no
\* effect runs.
Tick(id) ==
    /\ id \in DOMAIN nodePos
    /\ nodePos[id].x < InitialPosition(IndexOf(graphData, id)).x + MaxTicks * Drift.x
    /\ nodePos' = [nodePos EXCEPT ![id] = [x |-> @.x + Drift.x, y |-> @.y + Drift.y]]
    /\ alpha' = "decayed"
    /\ lastCall' = NoCall
    /\ NoGesture
    /\ UNCHANGED <<isAppReady, status, socket, service, graphData, prevGraphData, focusedNodeId,
                   focusedNodeIdRef, history, domNodes, numEntries, arrived,
                   zoomLevel, visMode, hoveredNodeId, viewTransform, rafQueue,
                   xTargets>>

\* The values the zoom slider is set to.
ZoomInputs == {MinZoom, DefaultZoom, MaxZoom}

\* The zoom slider: setZoomLevel(parseFloat(e.target.value))
SetZoom(z) ==
    /\ isAppReady
    /\ zoomLevel' = z
    /\ UNCHANGED visMode
    /\ lastCall' = NoCall
    /\ NoGesture
    /\ UNCHANGED <<isAppReady, status, socket, service, graphData, prevGraphData, focusedNodeId,
                   focusedNodeIdRef, history, domNodes, numEntries, arrived>>
    /\ Effects(graphData, focusedNodeId, nodePos, FALSE, rafQueue, FALSE)

\* Math.max(0.2, x) and Math.min(3, x) over the tenths.
Max(x, y) == IF x > y THEN x ELSE y

\* z + 0.1, whatever it gives
ZoomedInUnclamped(z) == z + 1

\* Math.min(3, z + 0.1)
ZoomedIn(z) == Min(MaxZoom, z + 1)

\* Math.max(0.2, z - 0.1)
ZoomedOut(z) == Max(MinZoom, z - 1)

\* A zoom button: setZoomLevel(z => step(z))
ZoomStep(op, z) ==
    /\ isAppReady
    /\ zoomLevel' = z
    /\ UNCHANGED visMode
    /\ lastCall' = [NoCall EXCEPT !.op = op]
    /\ NoGesture
    /\ UNCHANGED <<isAppReady, status, socket, service, graphData, prevGraphData, focusedNodeId,
                   focusedNodeIdRef, history, domNodes, numEntries, arrived>>
    /\ Effects(graphData, focusedNodeId, nodePos, FALSE, rafQueue, FALSE)

\* The zoom-in button
ZoomIn == ZoomStep("zoomIn", ZoomedIn(zoomLevel))

\* The zoom-out button
ZoomOut == ZoomStep("zoomOut", ZoomedOut(zoomLevel))

\* VisMode
VisModes == {"network", "stream", "layers", "cluster"}

\* The modes the layout runs switch between.
LayoutModes == {m \in VisModes : m \in {"network", "stream"}}

\* A mode button: setVisMode(mode)
SetMode(mode) ==
    /\ isAppReady
    /\ visMode' = mode
    /\ lastCall' = NoCall
    /\ NoGesture
    /\ UNCHANGED <<isAppReady, status, socket, service, graphData, prevGraphData, focusedNodeId,
                   focusedNodeIdRef, history, domNodes, numEntries, arrived, zoomLevel>>
    /\ Effects(graphData, focusedNodeId, nodePos, FALSE, rafQueue, FALSE)

\* The cursor samples of the view runs: the hand in the neutral pose over
\* the first place of the layout and far from it, and no hand.
ViewInputs ==
    { FrameInput("noHand", Point(0, 0), Point(0, 0)),
      FrameInput("hand", Point(493, 500), Point(593, 500)),
      FrameInput("hand", Point(900, 100), Point(900, 200)) }

\* The tool calls of the view runs: one concept each.
ViewUpdates ==
    {u \in SingleUpdates :
        /\ Len(u.concepts) = 1
        /\ u.concepts[1].id \in {"a", "b"}
        /\ u.concepts[1].importance = 10}

\* The tool calls of the history runs: the concept b, the concept a of a
\* greater importance, and a relationship of the two.
HistoryUpdates ==
    {u \in SingleUpdates :
        /\ \A i \in 1..Len(u.concepts) :
              u.concepts[i] \in {[id |-> "b", label |-> "B", importance |-> 10],
                                [id |-> "a", label |-> "A", importance |-> 50]}
        /\ \A i \in 1..Len(u.relationships) : u.relationships[i].source_id = "b"}

\* The whole program, fed tool calls of at most one entry.
Next ==
    \/ SkipCamera
    \/ StartSession
    \/ StopSession
    \/ \E u \in SingleUpdates : Deliver(ToolCall(u), MaxUpdates)
    \/ Deliver(OtherCall, MaxUpdates)
    \/ ClearGraph
    \/ \E i \in 1..MaxHistory : LoadSession(i)
    \/ \E i \in 1..MaxHistory : DeleteHistoryItem(i)
    \/ \E id \in domNodes : DoubleClickNode(id)
    \/ BackgroundClick
    \/ ExitTransitionEnd

Spec == Init /\ [][Next]_vars

\* The graph store under tool calls of several entries, with focus changes.
NextBatch ==
    \/ SkipCamera
    \/ StartSession
    \/ \E u \in Updates : Deliver(ToolCall(u), MaxBatch)
    \/ \E id \in domNodes : DoubleClickNode(id)
    \/ BackgroundClick

SpecBatch == Init /\ [][NextBatch]_vars

\* The tool calls of the event runs: up to two concepts, then at most one
\* relationship, between them or from an id no concept has.
EventUpdates ==
    {[concepts |-> cs, relationships |-> rs] :
        cs \in SeqsUpTo({c \in ConceptInputs : c.id \in {"a", "b"} /\ c.importance = 10},
                        MaxEntries),
        rs \in SeqsUpTo({r \in RelInputs : r.source_id # "a"}, 1)}

\* The graph store under tool calls that carry concepts and a relationship.
NextEvent ==
    \/ SkipCamera
    \/ StartSession
    \/ \E u \in EventUpdates : Deliver(ToolCall(u), MaxBatch + MaxEntries)
    \/ \E id \in domNodes : DoubleClickNode(id)
    \/ BackgroundClick

SpecEvent == Init /\ [][NextEvent]_vars

\* The delivery of tool calls, several to a message, with focus changes.
NextOrder ==
    \/ SkipCamera
    \/ StartSession
    \/ \E message \in OrderMessages : DeliverMessage(message)
    \/ \E id \in domNodes : DoubleClickNode(id)
    \/ BackgroundClick

SpecOrder == Init /\ [][NextOrder]_vars

\* The gesture channel over a graph of at most one node.
NextGesture ==
    \/ EnableCamera
    \/ SkipCamera
    \/ ToggleCamera
    \/ ToggleHandTracking
    \/ LoadMediaPipe
    \/ StartSession
    \/ \E u \in GestureUpdates : Deliver(ToolCall(u), MaxUpdates)
    \/ \E input \in FrameInputs : AnimationFrame(input)
    \/ BackgroundClick

SpecGesture == Init /\ [][NextGesture]_vars

\* The session history: saving, loading, deleting and exporting records.
NextHistory ==
    \/ SkipCamera
    \/ StartSession
    \/ StopSession
    \/ \E u \in HistoryUpdates : Deliver(ToolCall(u), MaxUpdates)
    \/ ClearGraph
    \/ \E i \in 1..MaxHistory : LoadSession(i)
    \/ \E i \in 1..MaxHistory : DeleteHistoryItem(i)
    \/ \E i \in 1..MaxHistory : ExportJSON(i)
    \/ \E i \in 1..MaxHistory : ExportMarkdown(i)
    \/ \E id \in domNodes : DoubleClickNode(id)
    \/ BackgroundClick

SpecHistory == Init /\ [][NextHistory]_vars

\* The zoom controls, with the resets of the zoom level.
NextZoom ==
    \/ SkipCamera
    \/ StartSession
    \/ StopSession
    \/ \E u \in GestureUpdates : Deliver(ToolCall(u), MaxUpdates)
    \/ ClearGraph
    \/ \E i \in 1..MaxHistory : LoadSession(i)
    \/ ZoomIn
    \/ ZoomOut
    \/ \E z \in ZoomInputs : SetZoom(z)

SpecZoom == Init /\ [][NextZoom]_vars

\* The layout under changes of the mode, of the graph and of the focus; the
\* simulation moves the node that arrived first.
NextLayout ==
    \/ SkipCamera
    \/ StartSession
    \/ StopSession
    \/ \E u \in ViewUpdates : Deliver(ToolCall(u), MaxUpdates)
    \/ ClearGraph
    \/ \E i \in 1..MaxHistory : LoadSession(i)
    \/ \E id \in domNodes : DoubleClickNode(id)
    \/ BackgroundClick
    \/ \E mode \in LayoutModes : SetMode(mode)
    \/ \E id \in DOMAIN nodePos : IndexOf(graphData, id) = 1 /\ Tick(id)

SpecLayout == Init /\ [][NextLayout]_vars

\* The graph view under cursor samples, focus changes, zoom changes and
\* simulation ticks.
NextView ==
    \/ EnableCamera
    \/ ToggleHandTracking
    \/ LoadMediaPipe
    \/ StartSession
    \/ \E u \in ViewUpdates : Deliver(ToolCall(u), MaxUpdates)
    \/ \E input \in ViewInputs : AnimationFrame(input)
    \/ \E id \in domNodes : DoubleClickNode(id)
    \/ BackgroundClick
    \/ \E z \in ZoomInputs : SetZoom(z)
    \/ \E id \in DOMAIN nodePos : Tick(id)

SpecView == Init /\ [][NextView]_vars

\* The tool calls of the stream runs: one concept each, of three ids.
StreamUpdates ==
    {[concepts |-> <<[id |-> x, label |-> "A", importance |-> 10]>>,
      relationships |-> <<>>] : x \in {"a", "b", "c"}}

\* The layout targets under updates, mode changes and focus changes.
NextStream ==
    \/ SkipCamera
    \/ StartSession
    \/ \E u \in StreamUpdates : Deliver(ToolCall(u), MaxUpdates + 1)
    \/ \E mode \in VisModes : SetMode(mode)
    \/ \E id \in domNodes : DoubleClickNode(id)
    \/ BackgroundClick

SpecStream == Init /\ [][NextStream]_vars

\* ------------------------------------------------------- the live service
\* The part of the state connect() and the callbacks of the service leave
\* alone.
ServiceFrame ==
    /\ UNCHANGED <<isAppReady, graphData, prevGraphData, focusedNodeId,
                   focusedNodeIdRef, history, domNodes, numEntries, arrived>>
    /\ NoEffects

\* toggleSession from idle or error: a new service, whose connect() sets the
\* status to connecting and waits for the microphone.  The run follows one
\* live connection: a new service is made while none is open or pending.
Connect ==
    /\ isAppReady
    /\ status \in {"idle", "error"}
    /\ service.step \in {"none", "failed"}
    /\ socket = "none"
    /\ service' = [NoService EXCEPT !.step = "awaitMic"]
    /\ status' = "connecting"
    /\ lastCall' = NoCall
    /\ UNCHANGED socket
    /\ ServiceFrame

\* getUserMedia rejects: connect() catches, sets the status to error, runs
\* disconnect() and throws; toggleSession sets the status to error.
MicDenied ==
    /\ service.step = "awaitMic"
    /\ service' = [Disconnect(service) EXCEPT !.step = "failed"]
    /\ status' = "error"
    /\ lastCall' = NoCall
    /\ UNCHANGED socket
    /\ ServiceFrame

\* getUserMedia resolves: connect() keeps the stream, makes the audio context
\* and calls client.live.connect(config).
MicGranted ==
    /\ service.step = "awaitMic"
    /\ service' = [service EXCEPT !.stream = "set", !.inputAudioContext = "set",
                                  !.step = "awaitLive"]
    /\ socket' = "opening"
    /\ lastCall' = NoCall
    /\ UNCHANGED status
    /\ ServiceFrame

\* The connection opens: callbacks.onopen
OnOpen ==
    /\ socket = "opening"
    /\ socket' = "open"
    /\ service' = OnOpenCallback(service)
    /\ status' = "active"
    /\ lastCall' = NoCall
    /\ ServiceFrame

\* client.live.connect resolves: connect() keeps the session and calls
\* startAudioStream().
LiveResolved ==
    /\ service.step = "awaitLive"
    /\ socket \in {"opening", "open"}
    /\ service' = StartAudioStream([service EXCEPT !.session = "set",
                                                   !.step = "resolved"])
    /\ lastCall' = NoCall
    /\ UNCHANGED <<socket, status>>
    /\ ServiceFrame

\* client.live.connect rejects: connect() catches as for the microphone.
LiveRejected ==
    /\ service.step = "awaitLive"
    /\ socket = "opening"
    /\ socket' = "none"
    /\ service' = [Disconnect(service) EXCEPT !.step = "failed"]
    /\ status' = "error"
    /\ lastCall' = NoCall
    /\ ServiceFrame

\* processor.onaudioprocess with a buffer that resamples to some data: the
\* chunk is sent when the service is connected and has a session.
AudioProcess ==
    /\ service.processor # Null
    /\ lastCall' = [NoCall EXCEPT !.op = IF CanSend(service) THEN "audio" ELSE "none"]
    /\ UNCHANGED <<socket, service, status>>
    /\ ServiceFrame

\* The live service: connect() step by step, its callbacks, disconnect() and
\* the server's tool calls.
NextService ==
    \/ SkipCamera
    \/ Connect
    \/ MicDenied
    \/ MicGranted
    \/ OnOpen
    \/ LiveResolved
    \/ LiveRejected
    \/ StopSession
    \/ AudioProcess
    \/ \E u \in ViewUpdates : Deliver(ToolCall(u), MaxUpdates)

SpecService == Init /\ [][NextService]_vars

\* --------------------------------------------------------- link map keys
\* Tool calls over ids that contain the '-' of the link key: one concept, or
\* one relationship between two of them.
KeyUpdates ==
    {[concepts |-> <<[id |-> x, label |-> "A", importance |-> 10]>>,
      relationships |-> <<>>] : x \in {"a", "a-b", "b-c", "c"}}
    \cup
    {[concepts |-> <<>>,
      relationships |-> <<[source_id |-> p[1], target_id |-> p[2], strength |-> 4]>>] :
        p \in {<<"a-b", "c">>, <<"a", "b-c">>, <<"a", "c">>}}

\* The graph under tool calls whose ids contain '-'.
NextKey ==
    \/ SkipCamera
    \/ StartSession
    \/ \E u \in KeyUpdates : Deliver(ToolCall(u), MaxBatch + MaxEntries)

SpecKey == Init /\ [][NextKey]_vars

\* The cursor samples of the hit runs: no hand, and the hand in the neutral
\* pose with the cursor 70 pixels and 69 pixels to the right of the first
\* place of the layout, and at the same distance from the first two places.
HitInputs ==
    { FrameInput("noHand", Point(0, 0), Point(0, 0)),
      FrameInput("hand", Point(423, 500), Point(423, 600)),
      FrameInput("hand", Point(424, 500), Point(424, 600)),
      FrameInput("hand", Point(500, 506), Point(500, 606)) }

\* The hit test under cursor samples, updates, focus changes and ticks of the
\* node that arrived first.
NextHit ==
    \/ EnableCamera
    \/ ToggleHandTracking
    \/ LoadMediaPipe
    \/ StartSession
    \/ \E u \in ViewUpdates : Deliver(ToolCall(u), MaxUpdates)
    \/ \E input \in HitInputs : AnimationFrame(input)
    \/ \E id \in domNodes : DoubleClickNode(id)
    \/ BackgroundClick
    \/ \E id \in DOMAIN nodePos : IndexOf(graphData, id) = 1 /\ Tick(id)

SpecHit == Init /\ [][NextHit]_vars

\* The view transform under updates, resets, focus changes, zoom changes and
\* ticks of the node that arrived first.
NextTransform ==
    \/ SkipCamera
    \/ StartSession
    \/ StopSession
    \/ \E u \in ViewUpdates : Deliver(ToolCall(u), MaxUpdates)
    \/ ClearGraph
    \/ \E id \in domNodes : DoubleClickNode(id)
    \/ BackgroundClick
    \/ \E z \in ZoomInputs : SetZoom(z)
    \/ \E id \in DOMAIN nodePos : IndexOf(graphData, id) = 1 /\ Tick(id)

SpecTransform == Init /\ [][NextTransform]_vars

\* ---------------------------------------------------------------- claims
Links(g) == {g.links[i] : i \in 1..Len(g.links)}

\* The links of g that join the ids x and y, in either direction.
LinksBetween(g, x, y) ==
    {i \in 1..Len(g.links) :
        \/ g.links[i].source = x /\ g.links[i].target = y
        \/ g.links[i].source = y /\ g.links[i].target = x}

\* The last step handed an update to handleGraphUpdate.
Updated == lastCall.op = "update_mind_map"

ConceptIds(u) == {u.concepts[i].id : i \in 1..Len(u.concepts)}

\* C1: in every reachable state, the source id and the target id of every
\* link are ids of nodes of the graph (no dangling edge), the contextual links
\* from the focused node included.
C1_NoDanglingLinks ==
    \A l \in Links(graphData) :
        l.source \in NodeIds(graphData) /\ l.target \in NodeIds(graphData)

\* C2: in every reachable graph there is at most one link per unordered pair
\* of nodes.
C2_OneLinkPerPair ==
    \A i, j \in 1..Len(graphData.links) :
        i # j =>
            {graphData.links[i].source, graphData.links[i].target}
                # {graphData.links[j].source, graphData.links[j].target}

\* The node of g with the id x (the first one).
NodeOf(g, x) == g.nodes[CHOOSE i \in 1..Len(g.nodes) : g.nodes[i].id = x]

\* The importances the concepts of u give for the id x, in the order of u.
RECURSIVE ImportancesFor(_, _)
ImportancesFor(cs, x) ==
    IF cs = <<>> THEN <<>>
    ELSE IF Head(cs).id = x
         THEN <<Head(cs).importance>> \o ImportancesFor(Tail(cs), x)
         ELSE ImportancesFor(Tail(cs), x)

\* min(20, v + incoming * 0.5), once for every incoming value of the list.
RECURSIVE GrownBy(_, _)
GrownBy(v, incoming) ==
    IF incoming = <<>> THEN v
    ELSE GrownBy(IF 2 * v + Head(incoming) < 40 THEN v + Head(incoming) \div 2 ELSE 20,
                 Tail(incoming))

\* C3: an update never makes two nodes share an id; a concept whose id is
\* already in the graph adds no node, and the node's importance afterwards is
\* min(20, importance before + incoming * 0.5), applied once for every
\* occurrence of the id in the update.
C3_ExistingConceptGrows ==
    Updated =>
        /\ \A i, j \in 1..Len(graphData.nodes) :
                i # j => graphData.nodes[i].id # graphData.nodes[j].id
        /\ ConceptIds(lastCall.update) \subseteq NodeIds(lastCall.before)
                => Len(graphData.nodes) = Len(lastCall.before.nodes)
        /\ \A x \in NodeIds(lastCall.before) :
                /\ x \in NodeIds(graphData)
                /\ NodeOf(graphData, x).val =
                        GrownBy(NodeOf(lastCall.before, x).val,
                                ImportancesFor(lastCall.update.concepts, x))

\* C3's case: the update names twice a node that is in the graph and below
\* the cap.
C3_Witness ==
    /\ Updated
    /\ \E x \in NodeIds(lastCall.before) :
        /\ Len(ImportancesFor(lastCall.update.concepts, x)) = 2
        /\ NodeOf(lastCall.before, x).val < NodeOf(graphData, x).val
        /\ NodeOf(graphData, x).val = 20

\* The update names a relationship between the ids x and y, in either
\* direction.
RelatesPair(u, x, y) ==
    \E i \in 1..Len(u.relationships) :
        {u.relationships[i].source_id, u.relationships[i].target_id} = {x, y}

\* The focus the last update saw is set, and b is an id the update names and
\* the focus is not.
FocusAnd(b) ==
    /\ Updated
    /\ ~Falsy(lastCall.focus)
    /\ b \in ConceptIds(lastCall.update)
    /\ b # lastCall.focus

RECURSIVE KnownEnds(_, _)
KnownEnds(rs, ids) ==
    IF rs = <<>> THEN <<>>
    ELSE IF Head(rs).source_id \in ids /\ Head(rs).target_id \in ids
         THEN <<Head(rs)>> \o KnownEnds(Tail(rs), ids)
         ELSE KnownEnds(Tail(rs), ids)

\* The ids of the node map once the concepts of u are processed on g.
IdsAfterConcepts(g, u) == NodeIds(g) \cup ConceptIds(u)

\* The update u without the relationships that name an id the node map does
\* not hold once the concepts of u are processed.
DropUnknown(g, u) ==
    [u EXCEPT !.relationships = KnownEnds(@, IdsAfterConcepts(g, u))]

\* C5: a relationship whose source or target id is not in the node map after
\* the concepts of its update were processed is dropped: the graph after the
\* update is the graph the update gives without that relationship (no link
\* made or changed, the node set as the concepts left it), and the other
\* relationships of the update are applied.
C5_UnknownEndpointDropped ==
    Updated =>
        /\ graphData = ApplyUpdate(lastCall.before, lastCall.focus,
                                   DropUnknown(lastCall.before, lastCall.update)).next
        /\ NodeIds(graphData) = IdsAfterConcepts(lastCall.before, lastCall.update)
        /\ \A l \in Links(graphData) :
                \/ l \in Links(lastCall.before)
                \/ l.source \in NodeIds(graphData) /\ l.target \in NodeIds(graphData)

\* C5's case: an update with a relationship that names an unknown id, and
\* another relationship, which made or changed a link.
C5_Witness ==
    /\ Updated
    /\ Len(lastCall.update.relationships) = 2
    /\ Len(DropUnknown(lastCall.before, lastCall.update).relationships) = 1
    /\ Links(graphData) # Links(lastCall.before)

\* The number of concepts of cs with the id x.
Mentions(cs, x) == Len(ImportancesFor(cs, x))

\* The update took the merge-growth path for the node x: it names x, which
\* the graph held, or names x more than once.
NodeGrown(x) ==
    \/ x \in NodeIds(lastCall.before) /\ Mentions(lastCall.update.concepts, x) >= 1
    \/ Mentions(lastCall.update.concepts, x) >= 2

\* The relationships of the update, by position, that run from s to t between
\* ids the node map holds.
RelsFromTo(s, t) ==
    {i \in 1..Len(lastCall.update.relationships) :
        /\ lastCall.update.relationships[i].source_id = s
        /\ lastCall.update.relationships[i].target_id = t
        /\ {s, t} \subseteq IdsAfterConcepts(lastCall.before, lastCall.update)}

\* The update took the merge-growth path for the link from s to t: a
\* relationship from s to t found the link the graph held, the contextual link
\* the update made, or the link an earlier relationship of the update made.
LinkGrown(s, t) ==
    \/ /\ RelsFromTo(s, t) # {}
       /\ \E l \in Links(lastCall.before) : l.source = s /\ l.target = t
    \/ /\ RelsFromTo(s, t) # {}
       /\ s = lastCall.focus
       /\ t \in ConceptIds(lastCall.update) \ NodeIds(lastCall.before)
       /\ LinksBetween(lastCall.before, s, t) = {}
    \/ Cardinality(RelsFromTo(s, t)) >= 2

\* C6: when an update changes a node or a link that exists already (the
\* merge-growth path), the importance it leaves is at most 20 and the strength
\* it leaves is at most 10, whatever the incoming value.
C6_GrowthCapped ==
    Updated =>
        /\ \A i \in 1..Len(graphData.nodes) :
                NodeGrown(graphData.nodes[i].id) => graphData.nodes[i].val <= 20
        /\ \A i \in 1..Len(graphData.links) :
                LinkGrown(graphData.links[i].source, graphData.links[i].target)
                    => graphData.links[i].value <= 10

\* C6's case: a link the graph held below the cap was grown by a strength that
\* takes the sum past the cap, and a node likewise.
C6_Witness ==
    /\ Updated
    /\ \E i \in 1..Len(lastCall.before.links) :
        LET l == lastCall.before.links[i] IN
        /\ l.value < 10
        /\ \E j \in RelsFromTo(l.source, l.target) :
                2 * l.value + lastCall.update.relationships[j].strength > 20
        /\ graphData.links[i].value = 10
    /\ \E i \in 1..Len(lastCall.before.nodes) :
        LET n == lastCall.before.nodes[i] IN
        /\ n.val < 20
        /\ \E j \in 1..Len(lastCall.update.concepts) :
                /\ lastCall.update.concepts[j].id = n.id
                /\ 2 * n.val + lastCall.update.concepts[j].importance > 40
        /\ graphData.nodes[i].val = 20

\* C7: the updater has no side effect on the graph it is given: the nodes and
\* links of that graph read the same after the call as before, so that running
\* the same update again on it gives the same result.
C7_NoSideEffects ==
    Updated =>
        /\ prevGraphData = lastCall.before
        /\ ApplyUpdate(prevGraphData, lastCall.focus, lastCall.update).next = graphData

\* The nodes and the links of g as sets: ids with importances, ends with
\* strengths.
NodeSet(g) == {g.nodes[i] : i \in 1..Len(g.nodes)}

SameGraph(g, h) == NodeSet(g) = NodeSet(h) /\ Links(g) = Links(h)

\* The graph after the update e2 and then the last update, from the graph and
\* with the focus the last update had.
OtherOrder(e2) ==
    ApplyUpdate(ApplyUpdate(lastCall.before, lastCall.focus, e2).next,
                lastCall.focus, lastCall.update).next

\* The graph after the last update and then the update e2.
ThisOrder(e2) == ApplyUpdate(graphData, lastCall.focus, e2).next

\* Every concept of u names a node of g and every relationship of u a link
\* of g, in the direction g holds it.
OnlyGrows(g, u) ==
    /\ ConceptIds(u) \subseteq NodeIds(g)
    /\ \A i \in 1..Len(u.relationships) :
            \E l \in Links(g) :
                /\ l.source = u.relationships[i].source_id
                /\ l.target = u.relationships[i].target_id

\* C8 as stated: for every graph G, focus f and updates E1 and E2, E1 and then
\* E2 gives the same nodes, importances, links and strengths as E2 and then
\* E1.
C8_Original ==
    Updated => \A e2 \in SingleUpdates : SameGraph(ThisOrder(e2), OtherOrder(e2))

\* C8, amended: E1 and then E2 gives the same set of node ids as E2 and then
\* E1; when every concept and relationship of E1 and of E2 names a node or a
\* link that G holds already (so that both updates only grow values), the
\* importances, the links and the strengths are the same too.
C8_GrowthCommutes ==
    Updated =>
        \A e2 \in SingleUpdates :
            LET this == ThisOrder(e2)
                other == OtherOrder(e2)
            IN /\ NodeIds(this) = NodeIds(other)
               /\ OnlyGrows(lastCall.before, lastCall.update) /\ OnlyGrows(lastCall.before, e2)
                    => SameGraph(this, other)

\* C8's case: E1 grew a node G held, and an E2 that grows the same node by
\* another amount gives, in either order, a value that neither update gives
\* alone.
C8_Witness ==
    /\ Updated
    /\ lastCall.update.concepts # <<>>
    /\ OnlyGrows(lastCall.before, lastCall.update)
    /\ \E e2 \in SingleUpdates :
        /\ e2.concepts # <<>>
        /\ OnlyGrows(lastCall.before, e2)
        /\ e2.concepts[1].id = lastCall.update.concepts[1].id
        /\ e2.concepts[1].importance # lastCall.update.concepts[1].importance
        /\ NodeSet(ThisOrder(e2)) # NodeSet(graphData)
        /\ NodeSet(ThisOrder(e2)) # NodeSet(ApplyUpdate(lastCall.before, lastCall.focus, e2).next)

\* The graph that the logged calls give when they are applied one at a time,
\* in the order of the log, from the graph g: a call of update_mind_map is one
\* run of the updater with the focus of its arrival, a call of another name
\* changes nothing.
RECURSIVE Replay(_, _)
Replay(g, log) ==
    IF log = <<>> THEN g
    ELSE Replay(IF Head(log).call.name = "update_mind_map"
                THEN ApplyUpdate(g, Head(log).focus, Head(log).call.args).next
                ELSE g,
                Tail(log))

\* The log with the entries at i and i + 1 in each other's place.
Swapped(log, i) ==
    [j \in 1..Len(log) |->
        IF j = i THEN log[i + 1] ELSE IF j = i + 1 THEN log[i] ELSE log[j]]

\* The log without the entry at i, and with the entry at i twice.
Without(log, i) == SubSeq(log, 1, i - 1) \o SubSeq(log, i + 1, Len(log))

Twice(log, i) == SubSeq(log, 1, i) \o SubSeq(log, i, Len(log))

\* C9: the graph is the result of the tool calls applied one at a time in the
\* order they arrived, across messages and within one message: none out of
\* its place, none skipped, none applied twice.
C9_ArrivalOrder == graphData = Replay(EmptyGraph, arrived)

\* C9's case: two calls arrived in one message, and the graph would be another
\* with the two in the other order, with the first skipped, or with it applied
\* twice.
C9_Witness ==
    \E i \in 1..(Len(arrived) - 1) :
        /\ arrived[i].first = arrived[i + 1].first
        /\ graphData # Replay(EmptyGraph, Swapped(arrived, i))
        /\ graphData # Replay(EmptyGraph, Without(arrived, i))
        /\ graphData # Replay(EmptyGraph, Twice(arrived, i))

\* The concepts of cs that have an id and a label.
RECURSIVE WellFormed(_)
WellFormed(cs) ==
    IF cs = <<>> THEN <<>>
    ELSE IF Head(cs).id = Undefined \/ Head(cs).label = Undefined
         THEN WellFormed(Tail(cs))
         ELSE <<Head(cs)>> \o WellFormed(Tail(cs))

DropMalformed(u) == [u EXCEPT !.concepts = WellFormed(@)]

\* C10: a concept without an id or without a label is skipped on its own: the
\* graph after the update is the graph the update gives without that concept
\* (no node and no contextual link for it, every well-formed concept and every
\* relationship of the update applied).
C10_MalformedSkipped ==
    Updated =>
        graphData = ApplyUpdate(lastCall.before, lastCall.focus,
                                DropMalformed(lastCall.update)).next

\* The last step was a landmark frame of the kind.
Frame(kind) == lastFrame.kind = kind

\* C11: in a run of landmark frames with no frame classified neutral, with
\* switches from pinching to open and frames without a hand in between, at
\* most one Select or Deselect event fires in all.
C11_OneEventPerGesture == fired <= 1

\* A pinch selected a node, the hand opened with no neutral frame between,
\* and the open frame past the hold found the trigger used: no Deselect.
C11_Witness ==
    /\ Frame("open")
    /\ spreadDuration > SpreadHold
    /\ lastFrame.before.armed
    /\ ~Falsy(lastFrame.before.focus)
    /\ lastFrame.before.focus = selected
    /\ fired = 1

\* The last step was a pinching frame past the hold, with the trigger ready,
\* over the node the last Select event selected.
PinchAgain ==
    /\ Frame("pinching")
    /\ pinchDuration > PinchHold
    /\ ~lastFrame.before.armed
    /\ ~Falsy(lastFrame.before.hover)
    /\ lastFrame.before.hover = lastFrame.before.selected

\* C12 as stated: after Select(h), a neutral frame and six more pinching
\* frames over h always emit a second Select(h).
C12_Original == PinchAgain => lastFrame.event = "select"

\* C12: after Select(h), a neutral frame and six more pinching frames over h
\* use the trigger up, and emit a second Select(h) exactly when h is not the
\* focus any more; while h is still focused they emit no event.
C12_SecondSelect ==
    PinchAgain =>
        /\ hasTriggered
        /\ lastFrame.event = "select" <=> lastFrame.before.focus # lastFrame.before.hover
        /\ lastFrame.event = "select" => focusedNodeId = lastFrame.before.hover
        /\ lastFrame.event = "none" => focusedNodeId = lastFrame.before.focus

\* The second Select(h): h was selected, lost the focus, and is selected again.
C12_Witness ==
    /\ PinchAgain
    /\ lastFrame.event = "select"
    /\ focusedNodeId = selected

\* C19: a landmark frame on which the recognizer raises leaves the pinch
\* counter, the spread counter, the armed flag, the cursor and the focus as
\* they were, emits no event, and leaves the next frame scheduled.
C19_RaiseSwallowed ==
    Frame("raises") =>
        /\ pinchDuration = lastFrame.before.pinch
        /\ spreadDuration = lastFrame.before.spread
        /\ hasTriggered = lastFrame.before.armed
        /\ cursor = lastFrame.before.cursor
        /\ focusedNodeId = lastFrame.before.focus
        /\ hoveredNodeId = lastFrame.before.hover
        /\ lastFrame.event = "none"
        /\ rafQueue = <<TRUE>>

\* The recognizer raised in the middle of a pinch that had fired its Select.
C19_Witness ==
    /\ Frame("raises")
    /\ pinchDuration > PinchHold
    /\ hasTriggered
    /\ cursor # NoCursor
    /\ ~Falsy(focusedNodeId)

\* The camera is on and hand tracking is enabled.
ChannelEnabled == useCamera /\ isHandTrackingEnabled

\* C20: while the gesture channel is disabled (hand tracking off or the
\* camera off) no landmark frame callback is pending, so that no frame is
\* processed and no event emitted; every frame that is processed finds the
\* channel enabled; and at no time is more than one callback pending.
C20_ClockStops ==
    /\ Len(rafQueue) <= 1
    /\ ~ChannelEnabled => rafQueue = <<>>
    /\ lastFrame # NoFrame => ChannelEnabled

\* Hand tracking was turned off in the middle of a pinch.
C20_Witness ==
    /\ useCamera
    /\ ~isHandTrackingEnabled
    /\ pinchDuration > 0
    /\ cursor # NoCursor
    /\ rafQueue = <<>>

\* The last step was a landmark frame that set a cursor: a cursor sample,
\* which the hit test resolved in the same step.
CursorSample == Frame("pinching") \/ Frame("open") \/ Frame("neutral")

\* Where the rendered graph shows the node: its projection under the
\* transform the zoom effect last applied.
Shown(id) == Project(nodePos[id], viewTransform)

\* C13: at a cursor sample, a cursor exactly at the projection of a node
\* under the active view transform resolves to that node, and a cursor
\* farther than 70 pixels from the projection of every node resolves to null.
C13_HitTestConsistent ==
    CursorSample =>
        /\ \A id \in NodeIds(graphData) :
              Shown(id) = CursorOnScreen(cursor) => hoveredNodeId = id
        /\ (\A id \in NodeIds(graphData) :
               Dist2(Shown(id), CursorOnScreen(cursor))
                   > (10 * HitRadius) * (10 * HitRadius))
              => hoveredNodeId = Null

\* C14: at a cursor sample, the translate and scale the hit test projects
\* the nodes with are the view transform the zoom effect last applied to the
\* rendered graph, whatever the focus, the zoom and the node positions are,
\* and also after ticks of the layout moved the focused node.
C14_SameTransform ==
    CursorSample /\ Len(graphData.nodes) > 0 =>
        HitTransform(graphData, nodePos, zoomLevel, focusedNodeId) = viewTransform

\* C15: in every reachable state the focus is unset or the id of a node of
\* the graph; so it is after clearGraph and after loadSession, and no Select
\* sets it to a node that is not in the graph any more.
C15_FocusExists ==
    focusedNodeId = Null \/ focusedNodeId \in NodeIds(graphData)

\* C16: entering the focus with an id that is not the id of a node of the
\* graph leaves the focus as it was: every step that gives the focus a new
\* id gives it the id of a node of the graph.
C16_EnterFocusGuarded ==
    [][focusedNodeId' # focusedNodeId /\ focusedNodeId' # Null
          => focusedNodeId' \in NodeIds(graphData')]_vars

\* C17: in every record saveSession added to the history, the source and the
\* target of every link are plain ids, not node objects, whatever forms the
\* endpoints of the live links had at the save, and every node carries id,
\* label and val only.
C17_SavedPlain ==
    \A r \in 1..Len(history) :
        /\ \A i \in 1..Len(history[r].links) :
              /\ ~IsObject(history[r].links[i].source)
              /\ ~IsObject(history[r].links[i].target)
              /\ history[r].links[i].source \in NodeIdInputs \cup {Null}
              /\ history[r].links[i].target \in NodeIdInputs \cup {Null}
        /\ \A i \in 1..Len(history[r].nodes) :
              DOMAIN history[r].nodes[i] = {"id", "label", "val"}

\* The session was stopped over a graph whose links hold node objects and
\* whose nodes hold positions, and the record of it is the newest one.
C17_Witness ==
    /\ status = "idle"
    /\ Len(history) > 0
    /\ Len(graphData.links) > 0
    /\ Len(history[1].links) = Len(graphData.links)
    /\ \A i \in 1..Len(graphData.links) :
          /\ IsObject(Live(graphData, nodePos).links[i].source)
          /\ IsObject(Live(graphData, nodePos).links[i].target)
          /\ history[1].links[i].source = graphData.links[i].source
          /\ history[1].links[i].target = graphData.links[i].target
    /\ \A i \in 1..Len(graphData.nodes) :
          "x" \in DOMAIN Live(graphData, nodePos).nodes[i]
    /\ Len(history[1].nodes) = Len(graphData.nodes)

\* The step leaves the records as they are: it changes none, and at most
\* puts a new one in front or takes one out.
HistoryKept ==
    \/ history' = history
    \/ Len(history') = Len(history) + 1 /\ Tail(history') = history
    \/ \E i \in 1..Len(history) : history' = Without(history, i)

\* C18: a record in the history is immutable: its nodes, in content and in
\* order, and its links are changed by no step, be it an update of the live
\* graph, loadSession of the record with updates after it, exportJSON or
\* exportMarkdown; a step only adds a record or deletes one.
C18_SnapshotImmutable == [][HistoryKept]_vars

\* C21: in every reachable state the zoom level lies in [0.2, 3.0], under
\* zoom-in, zoom-out, slider changes, graph reset and session load.
C21_ZoomInRange == MinZoom <= zoomLevel /\ zoomLevel <= MaxZoom

\* The zoom-in button was pressed and the zoom level is at the top.
C21_Witness == lastCall.op = "zoomIn" /\ zoomLevel = MaxZoom

\* The step replaced the graph: a full reset or a session load.
Replaced == lastCall.op \in {"clearGraph", "loadSession"}

C23_ArmedAtThreshold ==
    /\ Frame("pinching") /\ pinchDuration > PinchHold /\ ~lastFrame.before.armed
          => hasTriggered
    /\ lastFrame.event = "select" => pinchDuration = PinchHold + 1

\* C24: Select(h) is emitted only on a pinching frame that finds the pinch
\* counter past 5 and the trigger ready, with h the hover id, not empty and
\* not the focus; so none is emitted in the first five frames of a pinch,
\* and none for a node that is focused already.  It makes h the focus.
C24_SelectOnlyWhen ==
    lastFrame.event = "select" =>
        /\ Frame("pinching")
        /\ pinchDuration = lastFrame.before.pinch + 1
        /\ pinchDuration > PinchHold
        /\ ~lastFrame.before.armed
        /\ ~Falsy(lastFrame.before.hover)
        /\ lastFrame.before.hover # lastFrame.before.focus
        /\ selected = lastFrame.before.hover
        /\ focusedNodeId = lastFrame.before.hover

\* A Select on the sixth frame of a pinch, with another node or none focused.
C24_Witness ==
    /\ lastFrame.event = "select"
    /\ pinchDuration = PinchHold + 1
    /\ hasTriggered

\* C25: Deselect is emitted only on an open frame that finds the spread
\* counter past 8, the trigger ready and a focus; it uses the trigger and
\* unsets the focus.  An open frame past the hold with no focus emits nothing.
C25_DeselectOnlyWhen ==
    /\ lastFrame.event = "deselect" =>
          /\ Frame("open")
          /\ spreadDuration = lastFrame.before.spread + 1
          /\ spreadDuration > SpreadHold
          /\ ~lastFrame.before.armed
          /\ ~Falsy(lastFrame.before.focus)
          /\ hasTriggered
          /\ focusedNodeId = Null
    /\ Frame("open") /\ Falsy(lastFrame.before.focus) => lastFrame.event = "none"

\* A Deselect on the ninth open frame.
C25_Witness ==
    /\ lastFrame.event = "deselect"
    /\ spreadDuration = SpreadHold + 1
    /\ pinchDuration = 0

\* C26: a frame without landmarks clears the cursor, sets both counters to
\* 0, emits no event and leaves the armed flag and the focus as they were;
\* the armed flag goes from true to false only in a step that is a frame
\* classified neutral, and such a frame leaves both counters at 0.
C26_HandLostAndRearm ==
    [][/\ Frame("noHand")' =>
             /\ cursor' = NoCursor
             /\ pinchDuration' = 0
             /\ spreadDuration' = 0
             /\ lastFrame'.event = "none"
             /\ hasTriggered' = hasTriggered
             /\ focusedNodeId' = focusedNodeId
       /\ hasTriggered /\ ~hasTriggered' => Frame("neutral")'
       /\ Frame("neutral")' =>
             /\ pinchDuration' = 0
             /\ spreadDuration' = 0
             /\ ~hasTriggered']_vars

\* The hand was lost in the middle of a pinch that had fired its Select.
C26_Witness ==
    /\ Frame("noHand")
    /\ lastFrame.before.pinch > PinchHold
    /\ lastFrame.before.cursor # NoCursor
    /\ hasTriggered
    /\ pinchDuration = 0

\* The link of g from s to t is there.
HasLink(g, s, t) == \E l \in Links(g) : l.source = s /\ l.target = t

\* The relationships of the update, by position, with an end that is a
\* concept the update brought in.
RelsToNew ==
    {i \in 1..Len(lastCall.update.relationships) :
        {lastCall.update.relationships[i].source_id,
         lastCall.update.relationships[i].target_id}
            \cap (ConceptIds(lastCall.update) \ NodeIds(lastCall.before)) # {}}

\* C27: the concepts of an update are all processed before its
\* relationships: a relationship whose ends are nodes of the graph or
\* concepts of the same update, wherever they stand among its concepts,
\* leaves a link from its source to its target.
C27_ConceptsFirst ==
    Updated =>
        \A i \in 1..Len(lastCall.update.relationships) :
            LET r == lastCall.update.relationships[i] IN
            {r.source_id, r.target_id}
                    \subseteq IdsAfterConcepts(lastCall.before, lastCall.update)
                => HasLink(graphData, r.source_id, r.target_id)

\* C27's case: the update brought in two concepts and a relationship from the
\* second to the first, and no focus made a link of them.
C27_Witness ==
    /\ Updated
    /\ Falsy(lastCall.focus)
    /\ lastCall.before.nodes = <<>>
    /\ Len(lastCall.update.concepts) = 2
    /\ \E i \in RelsToNew :
          /\ lastCall.update.relationships[i].source_id = lastCall.update.concepts[2].id
          /\ lastCall.update.relationships[i].target_id = lastCall.update.concepts[1].id
          /\ HasLink(graphData, lastCall.update.concepts[2].id,
                     lastCall.update.concepts[1].id)

\* C28 as stated: an update leaves no node of the graph with a lower
\* importance and no link of the graph with a lower strength than it had,
\* the nodes and links created above the cap included.
C28_Original ==
    Updated =>
        /\ \A i \in 1..Len(lastCall.before.nodes) :
              graphData.nodes[i].val >= lastCall.before.nodes[i].val
        /\ \A i \in 1..Len(lastCall.before.links) :
              graphData.links[i].value >= lastCall.before.links[i].value

\* C28, amended: an update leaves every node of the graph with an importance
\* of at least min(20, the importance it had) and every link with a strength
\* of at least min(10, the strength it had): a value at or below the cap is
\* never lowered, and a value created above the cap is lowered to the cap by
\* the first update that names the node or the link again.
C28_GrowsUpToCap ==
    Updated =>
        /\ \A i \in 1..Len(lastCall.before.nodes) :
              LET n == lastCall.before.nodes[i] IN
              /\ graphData.nodes[i].val >= Min(ImportanceCap, n.val)
              /\ n.val > ImportanceCap /\ n.id \in ConceptIds(lastCall.update)
                    => graphData.nodes[i].val = ImportanceCap
        /\ \A i \in 1..Len(lastCall.before.links) :
              LET l == lastCall.before.links[i] IN
              /\ graphData.links[i].value >= Min(StrengthCap, l.value)
              /\ l.value > StrengthCap /\ RelsFromTo(l.source, l.target) # {}
                    => graphData.links[i].value = StrengthCap

\* C28's case: the same relationship came again for a link below the cap,
\* which grew, and the same concept came again for a node created above the
\* cap, which is at the cap now.
C28_Witness ==
    /\ Updated
    /\ \E i \in 1..Len(lastCall.before.links) :
          LET l == lastCall.before.links[i] IN
          /\ l.value < StrengthCap
          /\ RelsFromTo(l.source, l.target) # {}
          /\ graphData.links[i].value > l.value
    /\ \E i \in 1..Len(lastCall.before.nodes) :
          LET n == lastCall.before.nodes[i] IN
          /\ n.val > ImportanceCap
          /\ \E j \in 1..Len(lastCall.update.concepts) :
                lastCall.update.concepts[j] =
                    [id |-> n.id, label |-> n.label, importance |-> n.val]
          /\ graphData.nodes[i].val = ImportanceCap

\* The first concept of cs with the id x.
FirstWith(cs, x) == cs[CHOOSE i \in 1..Len(cs) :
                          cs[i].id = x /\ \A j \in 1..(i - 1) : cs[j].id # x]

\* C29: creation stores the values as they came, with no cap.  A concept
\* whose id the graph did not hold leaves a node with its id, its label and
\* its importance (grown by the later concepts of the update with the same
\* id, if there are any); a relationship between nodes the map holds that
\* finds no link from its source to its target, and is the only one of the
\* update for them, leaves a link with its strength.
C29_CreatedVerbatim ==
    Updated =>
        /\ \A x \in ConceptIds(lastCall.update) \ NodeIds(lastCall.before) :
              LET c == FirstWith(lastCall.update.concepts, x) IN
              /\ x \in NodeIds(graphData)
              /\ NodeOf(graphData, x).label = c.label
              /\ NodeOf(graphData, x).val =
                    GrownBy(c.importance,
                            Tail(ImportancesFor(lastCall.update.concepts, x)))
              /\ Mentions(lastCall.update.concepts, x) = 1
                    => NodeOf(graphData, x) =
                            [id |-> c.id, label |-> c.label, val |-> c.importance]
        /\ \A i \in 1..Len(lastCall.update.relationships) :
              LET r == lastCall.update.relationships[i] IN
              RelsFromTo(r.source_id, r.target_id) = {i}
                    /\ ~LinkGrown(r.source_id, r.target_id)
                => [source |-> r.source_id, target |-> r.target_id,
                    value |-> r.strength] \in Links(graphData)

\* C29's case: the update made a node of importance 50 and a link of
\* strength 50 from it to a node the graph held.
C29_Witness ==
    /\ Updated
    /\ \E x \in ConceptIds(lastCall.update) \ NodeIds(lastCall.before) :
          /\ NodeOf(graphData, x).val > ImportanceCap
          /\ \E l \in Links(graphData) \ Links(lastCall.before) :
                /\ l.source = x
                /\ l.target \in NodeIds(lastCall.before)
                /\ l.value > StrengthCap

\* The nodes and the links of the graph are, place by place, the first nodes
\* and links of the graph of the next state, with their ids, labels and ends,
\* and every node that had a position has it still.
KeptInPlace ==
    /\ Len(graphData.nodes) <= Len(graphData'.nodes)
    /\ \A i \in 1..Len(graphData.nodes) :
          /\ graphData'.nodes[i].id = graphData.nodes[i].id
          /\ graphData'.nodes[i].label = graphData.nodes[i].label
    /\ \A id \in DOMAIN nodePos : id \in DOMAIN nodePos' /\ nodePos'[id] = nodePos[id]
    /\ Len(graphData.links) <= Len(graphData'.links)
    /\ \A i \in 1..Len(graphData.links) :
          /\ graphData'.links[i].source = graphData.links[i].source
          /\ graphData'.links[i].target = graphData.links[i].target

\* A node or a link of the graph is not in the graph of the next state.
Disappears ==
    \/ ~(NodeIds(graphData) \subseteq NodeIds(graphData'))
    \/ \E l \in Links(graphData) : ~HasLink(graphData', l.source, l.target)

FocusPlaced ==
    /\ focusedNodeId \notin {Null, Undefined, ""}
    /\ \E i \in 1..Len(graphData.nodes) : graphData.nodes[i].id = focusedNodeId
    /\ focusedNodeId \in DOMAIN nodePos

\* translate(W/2 - x*k, H/2 - y*k) scale(k) with k = 1.2 for the placed
\* focus at (x, y), translate(W/2, H/2) scale(zoom) otherwise.
ExpectedTransform ==
    IF FocusPlaced
    THEN [tx |-> (10 * Width) \div 2 - nodePos[focusedNodeId].x * 12,
          ty |-> (10 * Height) \div 2 - nodePos[focusedNodeId].y * 12,
          k |-> 12]
    ELSE [tx |-> (10 * Width) \div 2, ty |-> (10 * Height) \div 2, k |-> zoomLevel]

\* The step changed the zoom, the focus or the nodes array: the zoom effect
\* ran.
ZoomEffectRan ==
    \/ zoomLevel' # zoomLevel
    \/ focusedNodeId' # focusedNodeId
    \/ graphData' # graphData
    \/ lastCall'.op \in {"update_mind_map", "clearGraph", "loadSession"}

\* C31: the transform the zoom effect applies is translate(W/2 - x*k,
\* H/2 - y*k) scale(k) with k = 1.2 when the focus is a node of the graph with
\* a position (x, y), whatever the zoom level is, and translate(W/2, H/2)
\* scale(zoom level) when there is no focus or the focus is no node of the
\* graph or has no position.
C31_TransformOfFocus ==
    [][ZoomEffectRan => viewTransform' = ExpectedTransform']_vars

\* C31's case: the zoom was set to its maximum while the focus was on a node
\* the ticks had moved.
C31_Witness ==
    /\ FocusPlaced
    /\ zoomLevel = MaxZoom
    /\ nodePos[focusedNodeId] # InitialPosition(IndexOf(graphData, focusedNodeId))
    /\ viewTransform = ExpectedTransform
    /\ viewTransform.k # zoomLevel

\* The focus is on an id that is no node of the graph, and the view is the
\* one without a focus, at the zoom level.
C31_FocusMissing ==
    /\ focusedNodeId \notin {Null, Undefined, ""}
    /\ ~FocusPlaced
    /\ viewTransform = [tx |-> 5000, ty |-> 5000, k |-> zoomLevel]

\* The square of the distance, in tenths of a pixel, from the cursor to where
\* the hit test puts the node at i of g.
HitDist2(g, pos, zoom, focus, cur, i) ==
    LET placed == focus \notin {Null, Undefined, ""} /\ focus \in DOMAIN pos
                  /\ \E j \in 1..Len(g.nodes) : g.nodes[j].id = focus
        k == IF placed THEN 12 ELSE zoom
        tx == IF placed THEN 5000 - pos[focus].x * 12 ELSE 5000
        ty == IF placed THEN 5000 - pos[focus].y * 12 ELSE 5000
        p == pos[g.nodes[i].id]
        sx == p.x * k + tx - cur[1].x * 10
        sy == p.y * k + ty - cur[1].y * 10
    IN sx * sx + sy * sy

\* The node nearest to the cursor among the nodes of g with a position, the
\* earliest of the nearest ones, when it is nearer than 70 pixels; else null.
NearestWithin(g, pos, zoom, focus, cur) ==
    LET placed == {i \in 1..Len(g.nodes) : g.nodes[i].id \in DOMAIN pos}
        near == {i \in placed :
                    /\ HitDist2(g, pos, zoom, focus, cur, i) < 700 * 700
                    /\ \A j \in placed :
                          \/ HitDist2(g, pos, zoom, focus, cur, i)
                                < HitDist2(g, pos, zoom, focus, cur, j)
                          \/ /\ HitDist2(g, pos, zoom, focus, cur, i)
                                    = HitDist2(g, pos, zoom, focus, cur, j)
                             /\ i <= j}
    IN IF near = {} THEN Null ELSE g.nodes[CHOOSE i \in near : TRUE].id

\* The positions the nodes of the next graph had before the step.
PositionsBefore ==
    [id \in NodeIds(graphData') \cap DOMAIN nodePos |-> nodePos[id]]

\* C32: the hit test of a cursor sample gives the node whose projection is
\* nearest to the cursor among the nodes with a position when that is less
\* than 70 pixels away, and null otherwise: a node at 70 pixels is not hit,
\* and of the nodes at the same distance the one that arrived first is.  A
\* node without a position is not given: the run that comes with an update,
\* before the layout places the new node, finds the hover id among the nodes
\* placed before, and only when that run changed the hover id a second run
\* sees the new node.
C32_NearestWithinRadius ==
    [][/\ CursorSample' =>
             hoveredNodeId' = NearestWithin(graphData', nodePos', zoomLevel',
                                            focusedNodeId', cursor')
       /\ lastCall'.op = "update_mind_map" /\ cursor' # NoCursor
             /\ graphData'.nodes # <<>> =>
             hoveredNodeId' =
                IF NearestWithin(graphData', PositionsBefore, zoomLevel',
                                 focusedNodeId', cursor') = hoveredNodeId
                THEN hoveredNodeId
                ELSE NearestWithin(graphData', nodePos', zoomLevel',
                                   focusedNodeId', cursor')]_vars

\* C32's case: the cursor is at the same distance from two nodes, less than
\* 70 pixels, and the first of them is hit.
C32_Witness ==
    /\ CursorSample
    /\ Len(graphData.nodes) = 2
    /\ HitDist2(graphData, nodePos, zoomLevel, focusedNodeId, cursor, 1)
          = HitDist2(graphData, nodePos, zoomLevel, focusedNodeId, cursor, 2)
    /\ hoveredNodeId = graphData.nodes[1].id

\* The cursor is 70 pixels from the only node, and nothing is hit.
C32_AtRadius ==
    /\ CursorSample
    /\ Len(graphData.nodes) = 1
    /\ HitDist2(graphData, nodePos, zoomLevel, focusedNodeId, cursor, 1) = 700 * 700
    /\ hoveredNodeId = Null

\* An update brought a node next to the cursor, and nothing is hit.
C32_NewNodeNotSeen ==
    /\ Updated
    /\ cursor # NoCursor
    /\ hoveredNodeId = Null
    /\ NearestWithin(graphData, nodePos, zoomLevel, focusedNodeId, cursor) # Null
    /\ Len(graphData.nodes) = Len(lastCall.before.nodes) + 1

\* C33: in the stream mode the x target of the node at the index i (from 0)
\* of n nodes is -W/2.5 + (i / (n - 1)) * 0.8 W when n >= 2: the targets do
\* not decrease with i and lie between -W/2.5 and -W/2.5 + 0.8 W; the target
\* of a single node is -W/2.5, with nothing divided by zero.  (W = 1000
\* pixels, the targets in tenths of a pixel.)
C33_StreamTargets ==
    visMode = "stream" =>
        LET n == Len(graphData.nodes) IN
        /\ Len(xTargets) = n
        /\ n = 1 => xTargets[1] = -4000
        /\ \A i \in 1..n :
              /\ n >= 2 => (xTargets[i] + 4000) * (n - 1) = (i - 1) * 8000
              /\ -4000 <= xTargets[i] /\ xTargets[i] <= 4000
              /\ \A j \in 1..n : i <= j => xTargets[i] <= xTargets[j]

\* C33's case: three nodes in the stream mode, the second in the middle.
C33_Witness ==
    /\ visMode = "stream"
    /\ Len(graphData.nodes) = 3
    /\ xTargets = <<-4000, 0, 4000>>

\* A single node in the stream mode.
C33_Single ==
    /\ visMode = "stream"
    /\ Len(graphData.nodes) = 1
    /\ xTargets = <<-4000>>

\* The links the update left that the graph did not hold and that no
\* relationship of the update names: the contextual links it made.
ContextualLinksMade ==
    {l \in Links(graphData) :
        /\ ~HasLink(lastCall.before, l.source, l.target)
        /\ \A i \in 1..Len(lastCall.update.relationships) :
              \/ lastCall.update.relationships[i].source_id # l.source
              \/ lastCall.update.relationships[i].target_id # l.target}

\* C34: a concept that is in the graph already gains no contextual link: when
\* an update names a node C of the graph while the focus is A and no link
\* joins A and C, the update makes no link between them (unless one of its
\* relationships names the two).  Every contextual link an update makes runs
\* from the focus to a node that the same update created, which is not the
\* focus itself.
C34_NoLinkForExisting ==
    Updated =>
        /\ \A c \in ConceptIds(lastCall.update) \cap NodeIds(lastCall.before) :
              (/\ ~Falsy(lastCall.focus)
               /\ LinksBetween(lastCall.before, lastCall.focus, c) = {}
               /\ ~RelatesPair(lastCall.update, lastCall.focus, c))
                    => LinksBetween(graphData, lastCall.focus, c) = {}
        /\ \A l \in ContextualLinksMade :
              /\ l.source = lastCall.focus
              /\ l.target \in ConceptIds(lastCall.update) \ NodeIds(lastCall.before)
              /\ l.target # l.source
              /\ l.value = 3

\* C34's case: with the focus on A, an update named a node of the graph that
\* no link joined to A, and a new concept: the new node got its link from A,
\* the other got none.
C34_Witness ==
    /\ Updated
    /\ ~Falsy(lastCall.focus)
    /\ \E c \in (ConceptIds(lastCall.update) \cap NodeIds(lastCall.before))
                    \ {lastCall.focus} :
          LinksBetween(graphData, lastCall.focus, c) = {}
    /\ ContextualLinksMade # {}

\* C35: the pinch counter and the spread counter are never both above 0, and
\* each counts the frames of its class in a row: a pinching frame adds 1 to
\* the pinch counter and an open frame adds 1 to the spread counter, each
\* setting the other counter to 0; a neutral frame and a frame without a hand
\* set both to 0; every other step (a frame that is skipped because the video
\* is not ready, the recognizer raised or the channel is off, and every step
\* that is no frame) leaves both as they are.
C35_CountersCountRuns ==
    [][/\ ~(pinchDuration' > 0 /\ spreadDuration' > 0)
       /\ Frame("pinching")' =>
             pinchDuration' = pinchDuration + 1 /\ spreadDuration' = 0
       /\ Frame("open")' =>
             spreadDuration' = spreadDuration + 1 /\ pinchDuration' = 0
       /\ Frame("neutral")' \/ Frame("noHand")' =>
             pinchDuration' = 0 /\ spreadDuration' = 0
       /\ lastFrame'.kind \notin {"pinching", "open", "neutral", "noHand"} =>
             pinchDuration' = pinchDuration /\ spreadDuration' = spreadDuration]_vars

\* C35's case: an open frame ended a pinch that had passed its hold.
C35_Witness ==
    /\ Frame("open")
    /\ lastFrame.before.pinch > PinchHold
    /\ pinchDuration = 0
    /\ spreadDuration = 1

\* The cursor is null and the hover id is null.
NothingPointed == cursor = NoCursor /\ hoveredNodeId = Null

\* C36: whenever the gesture channel is off (the camera is off or the hand
\* tracking is disabled) the cursor is null and the hover id is null; and
\* whenever the cursor is null the hover id is null.
C36_OffClearsCursor ==
    /\ ~(useCamera /\ isHandTrackingEnabled) => NothingPointed
    /\ cursor = NoCursor => hoveredNodeId = Null

\* The part of C36 the code keeps: with the camera off, or with no cursor,
\* nothing is hovered.
C36_CameraOffClears ==
    /\ ~useCamera => NothingPointed
    /\ cursor = NoCursor => hoveredNodeId = Null

\* The hand tracking was switched off over a hovered node: the cursor and
\* the hover id are still there.
C36_StaleCursor ==
    /\ useCamera
    /\ ~isHandTrackingEnabled
    /\ cursor # NoCursor
    /\ hoveredNodeId # Null
    /\ rafQueue = <<>>

\* The processor, the source, the audio context, the stream and the session
\* of the service are null and it is not connected.
Released(sv) ==
    /\ ~sv.isConnected
    /\ sv.processor = Null
    /\ sv.source = Null
    /\ sv.inputAudioContext = Null
    /\ sv.stream = Null
    /\ sv.session = Null

\* C37: once disconnect() has run, and until connect() is called again, no
\* update is handed to onGraphUpdate and no tool response is sent, whatever
\* the server sends.
C37_SilentAfterDisconnect ==
    [][service.disconnected /\ service'.disconnected
          => lastCall'.op # "update_mind_map" /\ lastCall'.responses = 0]_vars

\* An update reached the graph after disconnect(), and a tool response was
\* sent for it.
C37_AnsweredAfterDisconnect ==
    /\ service.disconnected
    /\ Updated
    /\ lastCall.responses = 1
    /\ Len(graphData.nodes) > Len(lastCall.before.nodes)

C38_ReleasedAtDisconnect ==
    [][/\ ~service.disconnected /\ service'.disconnected => Released(service')
       /\ service'.step = "failed" => Released(service')]_vars

\* An audio chunk was sent after disconnect().
C38_ChunkAfterDisconnect ==
    /\ service.disconnected
    /\ lastCall.op = "audio"

\* The relationships of the last tool call whose two ends were nodes of the
\* graph before it.
RelsApplied ==
    {r \in {lastCall.update.relationships[i] :
                i \in 1..Len(lastCall.update.relationships)} :
        /\ r.source_id \in NodeIds(lastCall.before)
        /\ r.target_id \in NodeIds(lastCall.before)}

\* The links of g that do not join s to t, as (source, target, value).
OtherLinks(g, s, t) == {l \in Links(g) : ~(l.source = s /\ l.target = t)}

\* C39: the link key keeps ordered (source, target) pairs apart, also with
\* '-' in the ids: after a relationship between two nodes is applied the
\* graph holds a link of exactly that pair, and every link of another pair
\* is as it was.
C39_KeyInjective ==
    Updated =>
        \A r \in RelsApplied :
            /\ HasLink(graphData, r.source_id, r.target_id)
            /\ OtherLinks(lastCall.before, r.source_id, r.target_id)
                   \subseteq OtherLinks(graphData, r.source_id, r.target_id)

\* The same for relationships whose key no other pair of ids of the run
\* spells.
C39_PlainKeys ==
    Updated =>
        \A r \in {x \in RelsApplied : LinkKey(x.source_id, x.target_id) # "a-b-c"} :
            /\ HasLink(graphData, r.source_id, r.target_id)
            /\ OtherLinks(lastCall.before, r.source_id, r.target_id)
                   \subseteq OtherLinks(graphData, r.source_id, r.target_id)

\* A relationship was applied and the graph holds no link of its pair.
C39_LinkMissing ==
    /\ Updated
    /\ \E r \in RelsApplied : ~HasLink(graphData, r.source_id, r.target_id)

====
